---- MODULE Spec2Model ----
(***************************************************************************)
(* A model of the Dataverse Web API client (src/src/dataverse_sdk/odata.py) *)
(* and of the quickstart's retry helper (src/examples/quickstart.py).       *)
(*                                                                         *)
(* Its parts, each with its own specification over the shared variables:   *)
(*   SpecParse    ODataClient._parse_batch_response on bounded responses   *)
(*   SpecRetry    backoff_retry, one loop iteration per step               *)
(*   SpecTable    ODataClient.create_table against a metadata server       *)
(*   SpecCreate   ODataClient.create on a list (_create_batch)             *)
(*   SpecDelete   ODataClient.delete_table                                 *)
(*   SpecExtract  ODataClient._extract_id on bounded records               *)
(*   SpecSingle   ODataClient.create on a single record (_create_single)   *)
(*   SpecBatch    ODataClient._execute_batch_create: _build_batch_body,    *)
(*                the post and the decoding of an all-created response     *)
(*   SpecPairing  _parse_batch_response on responses whose parts carry a   *)
(*                Content-ID                                               *)
(*   SpecRetryFair  SpecRetry with weak fairness of the function's steps   *)
(*   SpecTableTwice  create_table called again after a failed call         *)
(*   SpecIds      ODataClient.create on a list with return_ids_only        *)
(*                                                                         *)
(* Text is modelled as a sequence of tokens.  A token stands for a run of  *)
(* characters the code treats as a unit: the split marker "HTTP/1.1 ", a   *)
(* line break "\r\n", a blank " ", a status code, a brace, the members of  *)
(* a JSON object ("k"), the dashes that start a multipart boundary ("--")  *)
(* and any other header text ("x").                                        *)
(***************************************************************************)
EXTENDS Integers, Sequences, FiniteSets, TLC

VARIABLES
    \* _parse_batch_response
    preamble, wire_parts, response_text, expected_count, results, parse_pc

    \* backoff_retry: its arguments, its position, and what it did so far
VARIABLES
    delays, retry_http_statuses, retry_if, retry_idx, last_exc, retry_pc,
    retry_out, attempts, sleeps, op_last, only_retryable

    \* create_table: its arguments, the server, the requests sent, the entity
    \* definition posted, the position in the call and its outcome
VARIABLES
    tablename, schema, server_has, requests, attributes, ent, poll_idx,
    poll_sleeps, metadata_id, first_lookup, ct_payload, ct_pc, ct_out

    \* create on a list: the collection and the records, the loop of
    \* _create_batch, the batches sent with the decoded result of each, the
    \* requests sent and the tokens acquired, and the outcome
VARIABLES
    cb_entity_set, records, cb_i, cb_results, sent_batches, batch_results,
    cb_requests, cb_tokens, cb_pc, cb_out

    \* delete_table: its argument, the server, the requests sent, the lookup's
    \* answer, the position in the call and its outcome
VARIABLES
    dt_tablename, dt_server_has, dt_requests, dt_ent, dt_pc, dt_out

    \* _extract_id: its argument, its position and its outcome
VARIABLES
    ex_record, ex_pc, ex_out

    \* create on a single record: its arguments, the requests sent and the
    \* tokens acquired, the representation received, and the outcome
VARIABLES
    cs_entity_set, cs_data, cs_return_ids_only, cs_requests, cs_tokens,
    cs_result, cs_pc, cs_out

    \* _execute_batch_create: its arguments, the two identifiers, the body
    \* built, the response received and the decoded result
VARIABLES
    bb_entity_set, bb_records, bb_batch_id, bb_changeset_id, bb_body,
    bb_response, bb_decoded, bb_pc

    \* the caller of create_table: the number of the call it is making, and the
    \* requests and the outcome of its first call
VARIABLES
    ct_calls, prior_requests, prior_out

    \* create on a list with return_ids_only: the number of records, the loop of
    \* _create_batch, the groups sent, the decoded results, and the outcome
VARIABLES
    li_len, li_i, li_sent, li_results, li_pc, li_out

parseVars ==
    <<preamble, wire_parts, response_text, expected_count, results, parse_pc>>

retryVars ==
    <<delays, retry_http_statuses, retry_if, retry_idx, last_exc, retry_pc,
      retry_out, attempts, sleeps, op_last, only_retryable>>

tableVars ==
    <<tablename, schema, server_has, requests, attributes, ent, poll_idx,
      poll_sleeps, metadata_id, first_lookup, ct_payload, ct_pc, ct_out>>

createVars ==
    <<cb_entity_set, records, cb_i, cb_results, sent_batches, batch_results,
      cb_requests, cb_tokens, cb_pc, cb_out>>

deleteVars ==
    <<dt_tablename, dt_server_has, dt_requests, dt_ent, dt_pc, dt_out>>

extractVars ==
    <<ex_record, ex_pc, ex_out>>

singleVars ==
    <<cs_entity_set, cs_data, cs_return_ids_only, cs_requests, cs_tokens,
      cs_result, cs_pc, cs_out>>

batchVars ==
    <<bb_entity_set, bb_records, bb_batch_id, bb_changeset_id, bb_body,
      bb_response, bb_decoded, bb_pc>>

againVars ==
    <<ct_calls, prior_requests, prior_out>>

idsVars ==
    <<li_len, li_i, li_sent, li_results, li_pc, li_out>>

vars ==
    <<parseVars, retryVars, tableVars, createVars, deleteVars, extractVars,
      singleVars, batchVars,
      againVars,
      idsVars>>

----------------------------------------------------------------------------
(* Tokens *)

HTTP == "HTTP/1.1 "
CRLF == "\r\n"
SP == " "
Whitespace == {SP, CRLF}

\* Python's None as a list entry; every other entry is a parsed record.
None == <<"None">>

----------------------------------------------------------------------------
(* String helpers of the Python runtime, on token sequences *)

\* str.split(sep) for a one-token separator: occurrences + 1 pieces.
RECURSIVE Split(_, _)
Split(s, sep) ==
    IF \A i \in 1..Len(s) : s[i] # sep
    THEN <<s>>
    ELSE LET i == CHOOSE j \in 1..Len(s) :
                     s[j] = sep /\ \A h \in 1..(j - 1) : s[h] # sep
         IN  <<SubSeq(s, 1, i - 1)>> \o Split(SubSeq(s, i + 1, Len(s)), sep)

\* sep.join(pieces): the two halves joined, with sep between them
RECURSIVE Join(_, _)
Join(pieces, sep) ==
    IF Len(pieces) = 0 THEN <<>>
    ELSE IF Len(pieces) = 1 THEN pieces[1]
    ELSE LET h == Len(pieces) \div 2
         IN  Join(SubSeq(pieces, 1, h), sep) \o <<sep>>
               \o Join(SubSeq(pieces, h + 1, Len(pieces)), sep)

\* str.strip(): leading and trailing whitespace removed.
RECURSIVE LStrip(_)
LStrip(s) ==
    IF Len(s) > 0 /\ s[1] \in Whitespace THEN LStrip(Tail(s)) ELSE s

RECURSIVE RStrip(_)
RStrip(s) ==
    IF Len(s) > 0 /\ s[Len(s)] \in Whitespace
    THEN RStrip(SubSeq(s, 1, Len(s) - 1)) ELSE s

Strip(s) == RStrip(LStrip(s))

\* str.find(pat): the 0-based offset of the first occurrence, or -1.
Find(s, pat) ==
    LET hits == {i \in 1..(Len(s) - Len(pat) + 1) :
                    SubSeq(s, i, i + Len(pat) - 1) = pat}
    IN  IF hits = {} THEN -1
        ELSE (CHOOSE i \in hits : \A j \in hits : i <= j) - 1

----------------------------------------------------------------------------
(* json.loads on a token sequence *)

\* The members of a JSON object: "k", or the members of the caller's
\* record number n, "r<n>".
RecordToken(n) == "r" \o ToString(n)

\* The quote that opens and closes a string value; between two quotes any
\* text but a quote is part of the string.
Quote == "\""
MaxRecords == 51
IsMember(c) == c = "k" \/ \E n \in 1..MaxRecords : c = RecordToken(n)

\* Nesting depth after each token of t, starting from depth d; -1 once the
\* text stopped being a prefix of one JSON object.
RECURSIVE JsonScan(_, _, _)
JsonScan(t, i, d) ==
    IF i > Len(t) THEN d
    ELSE IF t[i] = "{" /\ (d > 0 \/ i = 1) THEN JsonScan(t, i + 1, d + 1)
    ELSE IF t[i] = "}" /\ d > 0 /\ (d > 1 \/ i = Len(t))
         THEN JsonScan(t, i + 1, d - 1)
    ELSE IF IsMember(t[i]) /\ d > 0 THEN JsonScan(t, i + 1, d)
    ELSE IF t[i] = Quote /\ d > 0
         THEN LET closing == {j \in (i + 1)..Len(t) : t[j] = Quote}
              IN  IF closing = {} THEN -1
                  ELSE JsonScan(t, (CHOOSE j \in closing :
                                      \A h \in closing : j <= h) + 1, d)
    ELSE -1

\* The text without the whitespace JSON allows between its tokens.
Unspaced(t) == SelectSeq(t, LAMBDA c : c \notin Whitespace)

\* json.loads: the parsed object (its tokens, spacing gone), or the
\* JSONDecodeError it raises unless the text is exactly one JSON value; the
\* text it is given here always starts with "{".
JSONDecodeError == <<"JSONDecodeError">>

JsonLoads(t) ==
    LET u == Unspaced(t)
    IN  IF Len(u) > 0 /\ JsonScan(u, 1, 0) = 0 THEN u ELSE JSONDecodeError

----------------------------------------------------------------------------
(* ODataClient._parse_batch_response *)

\* The lines after the first line that is blank once stripped.
JsonLinesOf(lines) ==
    LET blank == {i \in 1..Len(lines) : Strip(lines[i]) = <<>>}
    IN  IF blank = {} THEN <<>>
        ELSE LET b == CHOOSE i \in blank : \A j \in blank : i <= j
             IN  SubSeq(lines, b + 1, Len(lines))

\* ParseBody without its except clause: the decode error escapes.
ParseBody_NoExcept(json_lines) ==
    LET json_text == Strip(Join(json_lines, CRLF))
        json_end == Find(json_text, <<"}", CRLF, "--">>)
        cut == IF json_end # -1 THEN SubSeq(json_text, 1, json_end + 1)
               ELSE json_text
    IN  IF Len(json_text) > 0 /\ json_text[1] = "{" THEN JsonLoads(cut) ELSE None

\* The body of one 201 part (the try block): the parsed record, or None.
\* except json.JSONDecodeError: results.append(None)
ParseBody(json_lines) ==
    LET json_text == Strip(Join(json_lines, CRLF))
        json_end == Find(json_text, <<"}", CRLF, "--">>)
        cut == IF json_end # -1 THEN SubSeq(json_text, 1, json_end + 1)
               ELSE json_text
        record == JsonLoads(cut)
    IN  IF Len(json_text) > 0 /\ json_text[1] = "{"
        THEN IF record = JSONDecodeError THEN None ELSE record
        ELSE None

\* One iteration of the loop over parts[1:].
ParsePart(part) ==
    LET lines == Split(part, CRLF)
        status_line == lines[1]
        json_lines == JsonLinesOf(lines)
    IN  IF ~(Len(status_line) > 0 /\ status_line[1] = "201") THEN None
        ELSE IF Len(json_lines) > 0 THEN ParseBody(json_lines)
        ELSE None

\* ParsedParts with break in place of continue: the first part that is not
\* a 201 ends the loop.
ParsedParts_Break(response) ==
    LET parts == Split(response, HTTP)
        all == [i \in 1..(Len(parts) - 1) |-> ParsePart(parts[i + 1])]
        bad == {i \in 1..Len(all) :
                   ~(Len(parts[i + 1]) > 0 /\ parts[i + 1][1] = "201")}
    IN  IF bad = {} THEN all
        ELSE SubSeq(all, 1, CHOOSE i \in bad : \A j \in bad : i <= j)

\* results after the loop over parts[1:]
ParsedParts(response) ==
    LET parts == Split(response, HTTP)
    IN  [i \in 1..(Len(parts) - 1) |-> ParsePart(parts[i + 1])]

\* PadWithNone with insert(0, None) in place of append(None): the padding is
\* put in front of the decoded parts.
PadWithNone_InFront(res, n) ==
    LET pad == IF Len(res) < n THEN n - Len(res) ELSE 0
    IN  [i \in 1..(pad + Len(res)) |-> IF i <= pad THEN None ELSE res[i - pad]]

\* while len(results) < expected_count: results.append(None)
PadWithNone(res, n) ==
    [i \in 1..(IF Len(res) < n THEN n ELSE Len(res)) |->
        IF i <= Len(res) THEN res[i] ELSE None]

\* Truncate off by one: results[:expected_count + 1]
Truncate_OneMore(res, n) ==
    SubSeq(res, 1, IF n + 1 < Len(res) THEN n + 1 ELSE Len(res))

\* results[:expected_count], for expected_count >= 0
Truncate(res, n) == SubSeq(res, 1, IF n < Len(res) THEN n ELSE Len(res))

\* The value returned, or the exception that escapes.
ParseBatchResponse(response, n) ==
    LET parsed == ParsedParts(response)
    IN  IF \E i \in 1..Len(parsed) : parsed[i] = JSONDecodeError
        THEN JSONDecodeError
        ELSE Truncate(PadWithNone(parsed, n), n)

----------------------------------------------------------------------------
(* Responses the decoder is run on *)

MaxParts == 3
MaxExpected == 3

\* One part of a multipart response as the server writes it after the
\* "HTTP/1.1 " marker: a status line, header lines, the blank line that
\* introduces the body (or none), the body, and what follows the body up to
\* the next marker (the next boundary and the next part's MIME headers).
WirePart(status_line, headers, blank, body, trailer) ==
    [status_line |-> status_line, headers |-> headers, blank |-> blank,
     body |-> body, trailer |-> trailer]

Render(p) ==
    p.status_line
      \o (IF p.headers = <<>> THEN <<>> ELSE <<CRLF>> \o p.headers)
      \o (IF p.blank = <<"absent">> THEN <<>> ELSE <<CRLF>> \o p.blank \o <<CRLF>>)
      \o p.body \o p.trailer

Boundary == <<CRLF, "--", "x", CRLF, "x", CRLF, CRLF>>
LastBoundary == <<CRLF, "--", "x", "--", CRLF, "--", "x", "--", CRLF>>

\* JSON objects a server may send as a body.
JsonObjects ==
    { <<"{", "k", "{", "k", "}", "}">>, <<"{", CRLF, "k", SP, "}">> }

\* Bodies that are no JSON object: cut short, followed by other text, with
\* a boundary inside, not starting with a brace.
BrokenBodies ==
    { <<"{", "k">>, <<"{", "k", "}", "x">>, <<"{", "k", "{", "}", CRLF, "--", "}">>,
      <<"x", "{", "k", "}">> }

WireParts ==
    \* created, every body, followed by the next boundary
    { WirePart(<<"201", SP, "x">>, <<"x">>, <<>>, b, Boundary) : b \in JsonObjects }
    \* created, no headers, the blank line holds a space, last part
    \cup { WirePart(<<"201">>, <<>>, <<SP>>, <<"{", "}">>, LastBoundary) }
    \* created, the response ends with the body
    \cup { WirePart(<<"201", SP, "x">>, <<"x">>, <<>>, <<"{", "k", "}">>, <<>>) }
    \* created, the body is not an object or does not parse
    \cup { WirePart(<<"201", SP, "x">>, <<"x">>, <<>>, b, Boundary) :
         b \in BrokenBodies }
    \* created, no blank line and so no body
    \cup { WirePart(<<"201", SP, "x">>, <<"x">>, <<"absent">>, <<>>, <<>>) }
    \* not created: an error with a JSON body, and a marker followed by nothing
    \cup { WirePart(<<"500", SP, "x">>, <<"x">>, <<>>, <<"{", "k", "}">>, Boundary),
           WirePart(<<>>, <<>>, <<"absent">>, <<>>, <<>>) }

\* What may come before the first marker; it is discarded.
Preambles ==
    { <<>>, <<"--", "x", CRLF, "201", CRLF, CRLF, "{", "k", "}", CRLF>> }

RECURSIVE Wire(_, _)
Wire(pre, ps) ==
    IF Len(ps) = 0 THEN pre
    ELSE Wire(pre \o <<HTTP>> \o Render(ps[1]), Tail(ps))

SeqsUpTo(S, n) == UNION {[1..m -> S] : m \in 0..n}

IdleParse ==
    /\ preamble = <<>> /\ wire_parts = <<>> /\ response_text = <<>>
    /\ expected_count = 0 /\ results = <<>> /\ parse_pc = "idle"

InitParse ==
    /\ preamble \in Preambles
    /\ wire_parts \in SeqsUpTo(WireParts, MaxParts)
    /\ response_text = Wire(preamble, wire_parts)
    /\ expected_count \in 0..MaxExpected
    /\ results = <<>>
    /\ parse_pc = "call"

parse_batch_response ==
    /\ parse_pc = "call"
    /\ LET r == ParseBatchResponse(response_text, expected_count)
       IN  IF r = JSONDecodeError
           THEN results' = <<>> /\ parse_pc' = "raised"
           ELSE results' = r /\ parse_pc' = "returned"
    /\ UNCHANGED <<preamble, wire_parts, response_text, expected_count>>

----------------------------------------------------------------------------
(* Responses whose parts name the request they answer *)

MaxAnswers == 2

\* The MIME headers the server writes in front of a part's "HTTP/1.1 "
\* marker; the Content-ID names the request item the part answers.
MimeHeaders(content_id) ==
    <<"--", "x", CRLF, "x", CRLF, "Content-ID: ", ToString(content_id),
      CRLF, CRLF>>

LastMimeBoundary == <<"--", "x", "--", CRLF>>

\* The answer to one request item: the Content-ID the server put on it and
\* the record it created (0: the item was refused with a 400).
Refused == 0
Answers == [content_id : 1..MaxAnswers, record : {Refused} \cup 1..MaxAnswers]

\* An answer as a part of the response; what follows its body is the next
\* part's MIME headers or the closing boundary.
AnswerPart(a, following) ==
    IF a.record = Refused
    THEN WirePart(<<"400", SP, "x">>, <<"x">>, <<>>, <<"{", "k", "}">>,
                  <<CRLF>> \o following)
    ELSE WirePart(<<"201", SP, "x">>, <<"x">>, <<>>,
                  <<"{", RecordToken(a.record), "}">>, <<CRLF>> \o following)

AnswerParts(as) ==
    [j \in 1..Len(as) |->
        AnswerPart(as[j], IF j < Len(as) THEN MimeHeaders(as[j + 1].content_id)
                          ELSE LastMimeBoundary)]

InitPairing ==
    /\ \E as \in SeqsUpTo(Answers, MaxAnswers) :
          /\ preamble = (IF Len(as) = 0 THEN LastMimeBoundary
                         ELSE MimeHeaders(as[1].content_id))
          /\ wire_parts = AnswerParts(as)
    /\ response_text = Wire(preamble, wire_parts)
    /\ expected_count \in 0..MaxExpected
    /\ results = <<>>
    /\ parse_pc = "call"

----------------------------------------------------------------------------
(* backoff_retry (examples/quickstart.py) *)

MaxDelays == 3

\* Seconds a delay sequence may hold.
DelayValues == {0, 2, 5}

\* A failure of the operation: the exception's class, the status code of
\* its response (NoStatus: it has no response), and whether its message
\* names an invalid table.  Exceptions are objects that test true.
NoStatus == 0
Failures ==
    [type : {"HTTPError"}, status_code : {429, 418, NoStatus},
     invalid_name : BOOLEAN]
    \cup [type : {"RuntimeError"}, status_code : {NoStatus}, invalid_name : BOOLEAN]

NoExc == [type |-> "None", status_code |-> NoStatus, invalid_name |-> FALSE]

\* What one call of op() does: it returns a value or raises a failure.
Returned(v) == [type |-> "return", status_code |-> v, invalid_name |-> FALSE]
OpOutcomes(n) == {Returned(n)} \cup Failures

\* The retry_if arguments: none, or the quickstart's _retry_if.
RetryIfs == {"None", "_retry_if"}
RetryIf(name, ex) == name = "_retry_if" /\ ex.invalid_name

\* The retry_http_statuses arguments: the quickstart passes () or a tuple
\* that holds 429.
StatusSets == {{}, {429, 503}}

\* A failure the caller's policy classifies as retryable: the predicate
\* accepts it, or it carries a status code of the retryable set.
ClassifiedRetryable(ex, pred, statuses) ==
    \/ pred = "_retry_if" /\ ex.invalid_name
    \/ ex.status_code # NoStatus /\ ex.status_code \in statuses

\* The except block up to its continue or break: TRUE for continue.
ShouldRetry_IgnoresPredicate(ex, pred, statuses) ==
    ex.type = "HTTPError" /\ ex.status_code \in statuses

ShouldRetry_AnyHTTPError(ex, pred, statuses) ==
    \/ pred # "None" /\ RetryIf(pred, ex)
    \/ ex.type = "HTTPError"

ShouldRetry(ex, pred, statuses) ==
    \/ pred # "None" /\ RetryIf(pred, ex)
    \/ ex.type = "HTTPError" /\ ex.status_code \in statuses

\* if delay: time.sleep(delay), before the attempt numbered n
SleepBefore_SkipsFirst(log, n, delay) ==
    IF n > 1 /\ delay # 0 THEN Append(log, [before |-> n, secs |-> delay]) ELSE log

SleepBefore(log, n, delay) ==
    IF delay # 0 THEN Append(log, [before |-> n, secs |-> delay]) ELSE log

\* for delay in delays: after the iteration numbered idx another follows.
MoreDelays_OneExtra(idx, ds) == idx <= Len(ds)

MoreDelays(idx, ds) == idx < Len(ds)

\* After the loop: if last_exc: raise last_exc; else the function ends and
\* returns None.
AfterLoop_Swallows(last) == [pc |-> "returned", out |-> NoExc]

AfterLoop(last) ==
    IF last # NoExc THEN [pc |-> "raised", out |-> last]
    ELSE [pc |-> "returned", out |-> NoExc]

IdleRetry ==
    /\ delays = <<>> /\ retry_http_statuses = {} /\ retry_if = "None"
    /\ retry_idx = 0 /\ last_exc = NoExc /\ retry_pc = "idle"
    /\ retry_out = NoExc /\ attempts = 0 /\ sleeps = <<>> /\ op_last = NoExc
    /\ only_retryable = TRUE

InitRetry ==
    /\ delays \in SeqsUpTo(DelayValues, MaxDelays)
    /\ retry_http_statuses \in StatusSets
    /\ retry_if \in RetryIfs
    /\ retry_idx = 0 /\ last_exc = NoExc /\ retry_pc = "call"
    /\ retry_out = NoExc /\ attempts = 0 /\ sleeps = <<>> /\ op_last = NoExc
    /\ only_retryable = TRUE

\* last_exc = None, and the for loop is entered or, with no delay, skipped.
backoff_retry_call ==
    /\ retry_pc = "call"
    /\ last_exc' = NoExc
    /\ IF Len(delays) = 0
       THEN /\ retry_pc' = AfterLoop(NoExc).pc
            /\ retry_out' = AfterLoop(NoExc).out
            /\ retry_idx' = retry_idx
       ELSE /\ retry_pc' = "loop"
            /\ retry_idx' = 1
            /\ retry_out' = retry_out
    /\ UNCHANGED <<delays, retry_http_statuses, retry_if, attempts, sleeps, op_last,
                   only_retryable>>

\* One iteration of the for loop: the sleep, op(), and the except block;
\* the iteration that ends the loop also runs the lines after it.
backoff_retry_iteration ==
    /\ retry_pc = "loop"
    /\ retry_idx <= Len(delays)
    /\ sleeps' = SleepBefore(sleeps, attempts + 1, delays[retry_idx])
    /\ attempts' = attempts + 1
    /\ \E o \in OpOutcomes(attempts + 1) :
         /\ op_last' = o
         /\ only_retryable' =
               (only_retryable /\ o.type # "return"
                  /\ ClassifiedRetryable(o, retry_if, retry_http_statuses))
         /\ IF o.type = "return"
            THEN /\ retry_pc' = "returned"
                 /\ retry_out' = o
                 /\ UNCHANGED <<last_exc, retry_idx>>
            ELSE /\ last_exc' = o
                 /\ IF ShouldRetry(o, retry_if, retry_http_statuses)
                       /\ MoreDelays(retry_idx, delays)
                    THEN /\ retry_idx' = retry_idx + 1
                         /\ UNCHANGED <<retry_pc, retry_out>>
                    ELSE /\ retry_pc' = AfterLoop(o).pc
                         /\ retry_out' = AfterLoop(o).out
                         /\ UNCHANGED retry_idx
    /\ UNCHANGED <<delays, retry_http_statuses, retry_if>>

----------------------------------------------------------------------------
(* Table metadata: _get_entity_by_schema, _attribute_payload,              *)
(* _wait_for_entity_ready, _create_entity, create_table                    *)

MaxCols == 2

\* JSON null, and Python's None for a field of a dict.
Null == "null"

\* A name is the sequence of its pieces between underscores:
\* "contoso_Widget" is <<"contoso", "Widget">>.
TableNames == { <<"sample item">>, <<"contoso", "Widget">> }

\* _to_pascal on a piece without underscores
ToPascal(piece) ==
    CASE piece = "sample item" -> "SampleItem"
      [] piece = "code" -> "Code"
      [] piece = "count" -> "Count"
      [] piece = "data" -> "Data"
      [] piece = "active" -> "Active"
      [] OTHER -> piece

\* tablename if "_" in tablename else f"new_{self._to_pascal(tablename)}"
EntitySchema(name) ==
    IF Len(name) > 1 THEN name ELSE <<"new", ToPascal(name[1])>>

\* dtype.lower().strip()
LowerStrip(dtype) ==
    CASE dtype = "INT" -> "int"
      [] dtype = " Bool " -> "bool"
      [] OTHER -> dtype

\* The columns a caller may pass, "blob" being a type the client does not
\* know.
Columns ==
    { [col |-> "code", dtype |-> "string"], [col |-> "count", dtype |-> "INT"],
      [col |-> "active", dtype |-> " Bool "], [col |-> "data", dtype |-> "blob"] }
Schemas == SeqsUpTo(Columns, MaxCols)

\* _attribute_payload: the attribute definition, or None.
NoPayload == [odata_type |-> "None", SchemaName |-> <<>>, IsPrimaryName |-> FALSE]

AttributePayload(schema_name, dtype, is_primary_name) ==
    LET dtype_l == LowerStrip(dtype)
        of(t, primary) ==
            [odata_type |-> t, SchemaName |-> schema_name, IsPrimaryName |-> primary]
    IN  CASE dtype_l \in {"string", "text"} -> of("String", is_primary_name)
          [] dtype_l \in {"int", "integer"} -> of("Integer", FALSE)
          [] dtype_l \in {"decimal", "money"} -> of("Decimal", FALSE)
          [] dtype_l \in {"float", "double"} -> of("Double", FALSE)
          [] dtype_l \in {"datetime", "date"} -> of("DateTime", FALSE)
          [] dtype_l \in {"bool", "boolean"} -> of("Boolean", FALSE)
          [] OTHER -> NoPayload

\* create_table, lines 500-512: the attribute list, the primary name
\* attribute first; the list built so far when a column type is unknown.
RECURSIVE ColumnPayloads(_, _)
ColumnPayloads(entity_schema, cols) ==
    IF Len(cols) = 0 THEN <<>>
    ELSE LET payload == AttributePayload(
                            <<entity_schema[1], ToPascal(cols[1].col)>>,
                            cols[1].dtype, FALSE)
         IN  IF payload = NoPayload THEN <<NoPayload>>
             ELSE <<payload>> \o ColumnPayloads(entity_schema, Tail(cols))

\* The primary name attribute appended after the columns.
BuildAttributes_PrimaryLast(entity_schema, cols) ==
    ColumnPayloads(entity_schema, cols)
        \o <<AttributePayload(<<entity_schema[1], "Name">>, "string", TRUE)>>

BuildAttributes(entity_schema, cols) ==
    <<AttributePayload(<<entity_schema[1], "Name">>, "string", TRUE)>>
        \o ColumnPayloads(entity_schema, cols)

\* The check for an unknown column type made on the primary name only.
Unsupported_PrimaryNameOnly(attrs) == attrs[1] = NoPayload

\* if not payload: raise ValueError(...), for each column of the schema
Unsupported(attrs) == \E i \in 1..Len(attrs) : attrs[i] = NoPayload

\* What a lookup by schema name may answer: no item, or the first item with
\* any of its selected fields still null; with no definition stored on the
\* server, no item.
NoEnt == [found |-> FALSE, MetadataId |-> Null, LogicalName |-> Null,
          EntitySetName |-> Null]
Entities ==
    [found : {TRUE}, MetadataId : {"m1", Null},
     LogicalName : {"new_sampleitem", Null},
     EntitySetName : {"new_sampleitems", Null}]
HTTPErrorResponse == [found |-> FALSE, MetadataId |-> "HTTPError",
                      LogicalName |-> Null, EntitySetName |-> Null]

LookupAnswers(stored) ==
    {NoEnt, HTTPErrorResponse} \cup (IF stored THEN Entities ELSE {})

\* delays or [0, 2, 5, 10, 20, 30]
PollDelays == <<0, 2, 5, 10, 20, 30>>

\* if ent: raise RuntimeError(... already exists ...)
AlreadyExists_OnlyWhenReady(e) == e.found /\ e.EntitySetName # Null

AlreadyExists_OnlyWithMetadataId(e) == e.found /\ e.MetadataId # Null

AlreadyExists(e) == e.found

\* if ent and ent.get("EntitySetName"): return ent
Ready(e) == e.found /\ e.EntitySetName # Null

\* if not ent or not ent.get("EntitySetName"): raise RuntimeError(...)
NotAvailable_OnlyWhenNone(e) == ~e.found

NotAvailable(e) == ~e.found \/ e.EntitySetName = Null

\* if idx > 0 and delay > 0: time.sleep(delay)
PollSleep(log, idx) ==
    IF idx > 1 /\ PollDelays[idx] > 0 THEN Append(log, PollDelays[idx]) ELSE log

Raised(what) == [kind |-> "raised", error |-> what, entity_schema |-> <<>>,
                 entity_logical_name |-> Null, entity_set_name |-> Null,
                 metadata_id |-> Null, columns_created |-> <<>>]

NoOut == [kind |-> "none", error |-> "", entity_schema |-> <<>>,
          entity_logical_name |-> Null, entity_set_name |-> Null,
          metadata_id |-> Null, columns_created |-> <<>>]

\* The dict create_table returns, ent2 being {} when the poll returned None.
TableInfo(entity_schema, ent2, mid, attrs) ==
    [kind |-> "returned", error |-> "", entity_schema |-> entity_schema,
     entity_logical_name |-> ent2.LogicalName,
     entity_set_name |-> ent2.EntitySetName,
     metadata_id |-> mid,
     columns_created |-> [i \in 1..(Len(attrs) - 1) |-> attrs[i + 1].SchemaName]]

\* The payload of _create_entity, as far as create_table decides it.
EntityPayload(schema_name, attrs) ==
    [posted |-> TRUE, SchemaName |-> schema_name, Attributes |-> attrs]
NothingPosted == [posted |-> FALSE, SchemaName |-> <<>>, Attributes |-> <<>>]

IdleTable ==
    /\ tablename = <<>> /\ schema = <<>> /\ server_has = FALSE
    /\ requests = <<>> /\ attributes = <<>> /\ ent = NoEnt /\ poll_idx = 0
    /\ poll_sleeps = <<>> /\ metadata_id = Null /\ first_lookup = NoEnt
    /\ ct_payload = NothingPosted /\ ct_pc = "idle" /\ ct_out = NoOut

InitTable ==
    /\ tablename \in TableNames
    /\ schema \in Schemas
    /\ server_has \in BOOLEAN
    /\ requests = <<>> /\ attributes = <<>> /\ ent = NoEnt /\ poll_idx = 0
    /\ poll_sleeps = <<>> /\ metadata_id = Null /\ first_lookup = NoEnt
    /\ ct_payload = NothingPosted /\ ct_pc = "call" /\ ct_out = NoOut

\* create_table, lines 494-512: the existence lookup, then the attribute
\* definitions.
create_table_lookup ==
    /\ ct_pc = "call"
    /\ requests' = Append(requests, "GET EntityDefinitions")
    /\ \E answer \in LookupAnswers(server_has) :
         /\ first_lookup' = answer
         /\ IF answer = HTTPErrorResponse
            THEN /\ ct_pc' = "raised" /\ ct_out' = Raised("HTTPError")
                 /\ UNCHANGED attributes
            ELSE IF AlreadyExists(answer)
            THEN /\ ct_pc' = "raised" /\ ct_out' = Raised("RuntimeError: already exists")
                 /\ UNCHANGED attributes
            ELSE LET attrs == BuildAttributes(EntitySchema(tablename), schema)
                 IN  /\ attributes' = attrs
                     /\ IF Unsupported(attrs)
                        THEN ct_pc' = "raised"
                               /\ ct_out' = Raised("ValueError: unsupported column type")
                        ELSE ct_pc' = "create_entity" /\ ct_out' = ct_out
    /\ UNCHANGED <<tablename, schema, server_has, ent, poll_idx, poll_sleeps,
                   metadata_id, ct_payload>>

\* _create_entity, lines 349-364: the POST of the entity definition, which
\* the server stores unless it has one of that name or fails.
create_entity_post ==
    /\ ct_pc = "create_entity"
    /\ requests' = Append(requests, "POST EntityDefinitions")
    /\ ct_payload' = EntityPayload(EntitySchema(tablename), attributes)
    /\ \E accepted \in (IF server_has THEN {FALSE} ELSE BOOLEAN) :
         IF accepted
         THEN /\ server_has' = TRUE
              /\ ct_pc' = "wait_in_create_entity" /\ poll_idx' = 1
              /\ ent' = NoEnt
              /\ UNCHANGED ct_out
         ELSE /\ ct_pc' = "raised" /\ ct_out' = Raised("HTTPError")
              /\ UNCHANGED <<server_has, poll_idx, ent>>
    /\ UNCHANGED <<tablename, schema, attributes, poll_sleeps, metadata_id,
                   first_lookup>>

\* One iteration of the loop of _wait_for_entity_ready: the sleep and the
\* lookup.  done: the poll returns its ent (ready, or the delays are used up).
PollStep(answer) ==
    /\ poll_sleeps' = PollSleep(poll_sleeps, poll_idx)
    /\ requests' = Append(requests, "GET EntityDefinitions")
    /\ ent' = answer

PollReturns(answer) == Ready(answer) \/ poll_idx = Len(PollDelays)

\* _create_entity, lines 365-370: the poll, then the check of its result.
create_entity_wait ==
    /\ ct_pc = "wait_in_create_entity"
    /\ \E answer \in LookupAnswers(server_has) :
         /\ PollStep(answer)
         /\ IF answer = HTTPErrorResponse
            THEN /\ ct_pc' = "raised" /\ ct_out' = Raised("HTTPError")
                 /\ UNCHANGED <<poll_idx, metadata_id>>
            ELSE IF ~PollReturns(answer)
            THEN /\ poll_idx' = poll_idx + 1
                 /\ UNCHANGED <<ct_pc, ct_out, metadata_id>>
            ELSE IF NotAvailable(answer)
            THEN /\ ct_pc' = "raised"
                 /\ ct_out' = Raised("RuntimeError: EntitySetName not available")
                 /\ UNCHANGED <<poll_idx, metadata_id>>
            ELSE /\ metadata_id' = answer.MetadataId
                 /\ ct_pc' = "wait_in_create_table" /\ poll_idx' = 1
                 /\ UNCHANGED ct_out
    /\ UNCHANGED <<tablename, schema, server_has, attributes, first_lookup,
                   ct_payload>>

\* create_table, lines 515-524: the second poll, then the returned dict.
create_table_wait ==
    /\ ct_pc = "wait_in_create_table"
    /\ \E answer \in LookupAnswers(server_has) :
         /\ PollStep(answer)
         /\ IF answer = HTTPErrorResponse
            THEN /\ ct_pc' = "raised" /\ ct_out' = Raised("HTTPError")
                 /\ UNCHANGED poll_idx
            ELSE IF ~PollReturns(answer)
            THEN /\ poll_idx' = poll_idx + 1
                 /\ UNCHANGED <<ct_pc, ct_out>>
            ELSE /\ ct_pc' = "returned"
                 /\ ct_out' = TableInfo(EntitySchema(tablename), answer,
                                         metadata_id, attributes)
                 /\ UNCHANGED poll_idx
    /\ UNCHANGED <<tablename, schema, server_has, attributes, metadata_id,
                   first_lookup, ct_payload>>

\* A caller that calls create_table once, or again with the same arguments
\* after a call that failed once the server had accepted the definition.
IdleAgain == ct_calls = 0 /\ prior_requests = <<>> /\ prior_out = NoOut

InitAgain == ct_calls = 1 /\ prior_requests = <<>> /\ prior_out = NoOut

\* The second call: a new frame of create_table against the server as the
\* first call left it.
create_table_again ==
    /\ ct_calls = 1 /\ ct_pc = "raised" /\ poll_idx >= 1
    /\ ct_calls' = 2 /\ prior_requests' = requests /\ prior_out' = ct_out
    /\ requests' = <<>> /\ attributes' = <<>> /\ ent' = NoEnt /\ poll_idx' = 0
    /\ poll_sleeps' = <<>> /\ metadata_id' = Null /\ first_lookup' = NoEnt
    /\ ct_payload' = NothingPosted /\ ct_pc' = "call" /\ ct_out' = NoOut
    /\ UNCHANGED <<tablename, schema, server_has>>

----------------------------------------------------------------------------
(* ODataClient._build_batch_body *)

\* json.dumps(record): the members of an object are separated by ", " and a
\* key from its value by ": ", so a space follows every token that is not
\* the last of its object and does not open one; the text of a string
\* value is written as it is.
RECURSIVE JsonDumpsFrom(_, _, _)
JsonDumpsFrom(record, i, in_string) ==
    IF i > Len(record) THEN <<>>
    ELSE IF in_string
    THEN <<record[i]>> \o JsonDumpsFrom(record, i + 1, record[i] # Quote)
    ELSE (IF i > 1 /\ record[i - 1] # "{" /\ record[i] # "}" THEN <<SP>> ELSE <<>>)
           \o <<record[i]>> \o JsonDumpsFrom(record, i + 1, record[i] = Quote)

JsonDumps(record) == JsonDumpsFrom(record, 1, FALSE)

\* f"{self.api}/{entity_set}"
Api == "{api}"
CollectionUrl(entity_set) == <<Api, "/", entity_set>>

\* f"Content-ID: {i + 1}", i counting from 0
ContentId_ZeroBased(i) == <<"Content-ID: ", ToString(i)>>

ContentId(i) == <<"Content-ID: ", ToString(i + 1)>>

\* The lines of one changeset item, lines 193-203.
ChangesetItem(entity_set, record, i, changeset_id) ==
    << <<"--", "changeset_", changeset_id>>,
       <<"Content-Type: application/http">>,
       <<"Content-Transfer-Encoding: binary">>,
       ContentId(i),
       <<>>,
       <<"POST", SP>> \o CollectionUrl(entity_set) \o <<SP, "HTTP/1.1">>,
       <<"Content-Type: application/json">>,
       <<"Prefer: return=representation">>,
       <<>>,
       JsonDumps(record),
       <<>> >>

\* for i, record in enumerate(records): the lines of items i, i + 1, ...
RECURSIVE ChangesetItems(_, _, _, _)
ChangesetItems(entity_set, recs, i, changeset_id) ==
    IF i >= Len(recs) THEN <<>>
    ELSE ChangesetItem(entity_set, recs[i + 1], i, changeset_id)
           \o ChangesetItems(entity_set, recs, i + 1, changeset_id)

\* The closing lines without the end of the changeset.
BatchEnd_ChangesetLeftOpen(batch_id, changeset_id) ==
    << <<>>, <<>>, <<"--", "batch_", batch_id, "--">> >>

\* lines 205-210: the end of the changeset and of the batch
BatchEnd(batch_id, changeset_id) ==
    << <<"--", "changeset_", changeset_id, "--">>,
       <<>>,
       <<"--", "batch_", batch_id, "--">> >>

BatchLines(entity_set, recs, batch_id, changeset_id) ==
    << <<"--", "batch_", batch_id>>,
       <<"Content-Type: multipart/mixed; boundary=", "changeset_", changeset_id>>,
       <<>> >>
      \o ChangesetItems(entity_set, recs, 0, changeset_id)
      \o BatchEnd(batch_id, changeset_id)

\* "\r\n".join(lines)
BuildBatchBody(entity_set, recs, batch_id, changeset_id) ==
    Join(BatchLines(entity_set, recs, batch_id, changeset_id), CRLF)

\* str(uuid.uuid4()); two calls give two different identifiers.
Uuids == {"u1", "u2"}

----------------------------------------------------------------------------
(* create on a list: create, _create_batch, _execute_batch_create *)

\* batch_size: int = 25
BatchSize == 25

\* The record number n as the caller passes it, and as JSON text.
Record(n) == <<"{", RecordToken(n), "}">>
RecordList(m) == [n \in 1..m |-> Record(n)]

\* records[i:i + batch_size], i counting from 0
Slice(recs, i, size) ==
    SubSeq(recs, i + 1, IF i + size < Len(recs) THEN i + size ELSE Len(recs))

\* results.extend(batch_results)
Extend_InFront(res, more) == more \o res

Extend(res, more) == res \o more

\* The parts of the $batch response for one batch: every record created and
\* echoed, in request order; the first or the last of them rejected; the
\* changeset rejected as a whole with a single error part.
CreatedPart(rec) == WirePart(<<"201", SP, "x">>, <<"x">>, <<>>, rec, Boundary)
ErrorPart == WirePart(<<"400", SP, "x">>, <<"x">>, <<>>, <<"{", "k", "}">>, Boundary)

BatchAnswers(batch) ==
    LET created == [j \in 1..Len(batch) |-> CreatedPart(batch[j])]
    IN  { created, [created EXCEPT ![1] = ErrorPart],
          [created EXCEPT ![Len(batch)] = ErrorPart], <<ErrorPart>> }

BatchPreamble == <<"--", "x", CRLF, "x", CRLF, CRLF>>

\* The collections records are created in.
EntitySets == {"accounts", "new_sampleitems"}

\* url = f"{self.api}/$batch"; the Content-Type header names the batch
\* boundary; data=batch_body
BatchRequest(batch_id, body) ==
    [verb |-> "post", url |-> <<Api, "/", "$batch">>,
     content_type |-> <<"multipart/mixed; boundary=", "batch_", batch_id>>,
     body |-> body]

IdleCreate ==
    /\ cb_entity_set = "" /\ records = <<>> /\ cb_i = 0 /\ cb_results = <<>>
    /\ sent_batches = <<>> /\ batch_results = <<>> /\ cb_requests = <<>>
    /\ cb_tokens = 0 /\ cb_pc = "idle" /\ cb_out = <<>>

InitCreate ==
    /\ cb_entity_set \in EntitySets
    /\ records \in {RecordList(m) : m \in 0..MaxRecords}
    /\ cb_i = 0 /\ cb_results = <<>> /\ sent_batches = <<>>
    /\ batch_results = <<>> /\ cb_requests = <<>> /\ cb_tokens = 0
    /\ cb_pc = "call" /\ cb_out = <<>>

\* r.raise_for_status() raises: the failure leaves _execute_batch_create,
\* _create_batch and create, none of which catches it; the results
\* collected so far are dropped with the frame of _create_batch.
RaiseForStatus_ReturnsCollected(collected) ==
    [pc |-> "returned", out |-> collected]

RaiseForStatus(collected) == [pc |-> "raised", out |-> <<"HTTPError">>]

\* if not data: return []
EmptyList_None == None

EmptyList == <<>>

\* create, lines 117-120, and _create_batch up to its loop: for an empty
\* list an empty list is returned.
create_list_call ==
    /\ cb_pc = "call"
    /\ IF Len(records) = 0
       THEN cb_pc' = "returned" /\ cb_out' = EmptyList
       ELSE cb_pc' = "loop" /\ cb_out' = cb_out
    /\ cb_i' = 0 /\ cb_results' = <<>>
    /\ UNCHANGED <<cb_entity_set, records, sent_batches, batch_results,
                   cb_requests, cb_tokens>>

\* One iteration of the loop of _create_batch: the slice, then
\* _execute_batch_create: the body under two fresh identifiers, the token
\* for the headers, the $batch request, the decoding of its response; after
\* the last iteration the results are returned.
create_batch_iteration ==
    /\ cb_pc = "loop"
    /\ cb_i < Len(records)
    /\ LET batch == Slice(records, cb_i, BatchSize)
       IN  /\ sent_batches' = Append(sent_batches, batch)
           /\ \E batch_id \in Uuids, changeset_id \in Uuids :
                 /\ batch_id # changeset_id
                 /\ cb_requests' = Append(cb_requests,
                     BatchRequest(batch_id,
                         BuildBatchBody(cb_entity_set, batch, batch_id, changeset_id)))
           /\ cb_tokens' = cb_tokens + 1
           /\ \/ \* r.raise_for_status() raises
                 /\ cb_pc' = RaiseForStatus(cb_results).pc
                 /\ cb_out' = RaiseForStatus(cb_results).out
                 /\ UNCHANGED <<cb_i, cb_results, batch_results>>
              \/ \E answer \in BatchAnswers(batch) :
                    LET decoded == ParseBatchResponse(Wire(BatchPreamble, answer),
                                                      Len(batch))
                        all == Extend(cb_results, decoded)
                    IN  /\ batch_results' = Append(batch_results, decoded)
                        /\ cb_results' = all
                        /\ cb_i' = cb_i + BatchSize
                        /\ IF cb_i + BatchSize < Len(records)
                           THEN UNCHANGED <<cb_pc, cb_out>>
                           ELSE cb_pc' = "returned" /\ cb_out' = all
    /\ UNCHANGED <<cb_entity_set, records>>

----------------------------------------------------------------------------
(* ODataClient._execute_batch_create: encode, post, decode *)

MaxBatchRecords == 3

\* The records of a batch: one member, two members, a nested object, and a
\* string value that holds the text "HTTP/1.1 ".
BatchRecords ==
    { <<"{", "k", "}">>, <<"{", "k", "k", "}">>,
      <<"{", "k", "{", "k", "}", "}">>, <<"{", Quote, HTTP, Quote, "}">> }

\* The responses that report every record of the batch as created, in
\* request order, each part with its record as body, written without white
\* space or as json.dumps writes it; the last part is followed by a
\* boundary or by the closing boundaries.
EchoResponses(batch) ==
    { Wire(BatchPreamble,
           [j \in 1..Len(batch) |->
               WirePart(<<"201", SP, "x">>, <<"x">>, <<>>,
                        IF spaced THEN JsonDumps(batch[j]) ELSE batch[j],
                        IF j = Len(batch) THEN last ELSE Boundary)]) :
        spaced \in BOOLEAN, last \in {Boundary, LastBoundary} }

IdleBatch ==
    /\ bb_entity_set = "" /\ bb_records = <<>> /\ bb_batch_id = ""
    /\ bb_changeset_id = "" /\ bb_body = <<>> /\ bb_response = <<>>
    /\ bb_decoded = <<>> /\ bb_pc = "idle"

InitBatch ==
    /\ bb_entity_set \in EntitySets
    /\ bb_records \in SeqsUpTo(BatchRecords, MaxBatchRecords)
    /\ bb_batch_id = "" /\ bb_changeset_id = "" /\ bb_body = <<>>
    /\ bb_response = <<>> /\ bb_decoded = <<>> /\ bb_pc = "call"

\* _execute_batch_create, lines 165-169: two fresh identifiers and the
\* body built by _build_batch_body.
execute_batch_create_build ==
    /\ bb_pc = "call"
    /\ \E batch_id \in Uuids, changeset_id \in Uuids :
         /\ batch_id # changeset_id
         /\ bb_batch_id' = batch_id /\ bb_changeset_id' = changeset_id
         /\ bb_body' = BuildBatchBody(bb_entity_set, bb_records, batch_id,
                                      changeset_id)
    /\ bb_pc' = "built"
    /\ UNCHANGED <<bb_entity_set, bb_records, bb_response, bb_decoded>>

\* _execute_batch_create, lines 171-180: the post, whose response reports
\* every record as created, and the decoding of r.text.
execute_batch_create_parse ==
    /\ bb_pc = "built"
    /\ \E response \in EchoResponses(bb_records) :
         /\ bb_response' = response
         /\ bb_decoded' = ParseBatchResponse(response, Len(bb_records))
    /\ bb_pc' = "decoded"
    /\ UNCHANGED <<bb_entity_set, bb_records, bb_batch_id, bb_changeset_id,
                   bb_body>>

----------------------------------------------------------------------------
(* ODataClient._extract_id *)

MaxFields == 2

\* A key or a value of a record: a string, given by its characters, or
\* something that is no string (the number 1).
Str(text) == [is_str |-> TRUE, text |-> text]
NoStr == [is_str |-> FALSE, text |-> <<"1">>]

\* str.lower() on one character, and on a string
Lower(c) ==
    CASE c = "A" -> "a" [] c = "B" -> "b" [] c = "C" -> "c" [] c = "D" -> "d"
      [] c = "E" -> "e" [] c = "F" -> "f" [] c = "I" -> "i"
      [] OTHER -> c

LowerText(text) == [i \in 1..Len(text) |-> Lower(text[i])]

\* str.endswith(suffix)
EndsWith(text, suffix) ==
    /\ Len(text) >= Len(suffix)
    /\ SubSeq(text, Len(text) - Len(suffix) + 1, Len(text)) = suffix

\* The characters of the class [0-9a-fA-F-]
HexDigits ==
    {"0", "1", "2", "3", "4", "5", "6", "7", "8", "9",
     "a", "b", "c", "d", "e", "f", "A", "B", "C", "D", "E", "F"}

\* re.fullmatch(r"[0-9a-fA-F-]{36}", text)
FullMatch(text) ==
    /\ Len(text) = 36
    /\ \A i \in 1..Len(text) : text[i] \in HexDigits \cup {"-"}

\* Values a field may hold: two GUIDs, 36 hex digits without a hyphen, a
\* GUID between white space, a GUID cut short, a GUID with a letter that is
\* no hex digit, and a number.
Rep(c, n) == [i \in 1..n |-> c]
Guid(c) ==
    Rep(c, 8) \o <<"-">> \o Rep("5", 4) \o <<"-">> \o Rep("A", 4) \o <<"-">>
      \o Rep("b", 4) \o <<"-">> \o Rep("0", 12)

Values ==
    { Str(Guid("3")), Str(Guid("f")), Str(Rep("f", 36)),
      Str(<<SP>> \o Guid("3") \o <<CRLF>>), Str(SubSeq(Guid("3"), 1, 35)),
      Str(Guid("g")), NoStr }

\* Keys: "caseid", "ID", "bar", "ids".
Keys ==
    { Str(<<"c", "a", "s", "e", "i", "d">>), Str(<<"I", "D">>),
      Str(<<"b", "a", "r">>), Str(<<"i", "d", "s">>) }

\* A dict: its items in order, no key twice; and what is no dict (None).
Dict(items) == [is_dict |-> TRUE, items |-> items]
NotADict == [is_dict |-> FALSE, items |-> <<>>]

Items == [k : Keys, v : Values]
Dicts ==
    { Dict(items) : items \in
        { s \in SeqsUpTo(Items, MaxFields) :
            \A i, j \in 1..Len(s) : i # j => s[i].k # s[j].k } }

\* The RuntimeError of _extract_id, and a returned value.
ExtractError ==
    [kind |-> "raised", value |-> Str(<<"RuntimeError: no record id">>)]
Extracted(v) == [kind |-> "returned", value |-> v]

\* _extract_id: the value of the first item that passes both tests.
ExtractId(record) ==
    IF ~record.is_dict THEN ExtractError
    ELSE LET items == record.items
             hits == {i \in 1..Len(items) :
                        /\ items[i].k.is_str
                        /\ EndsWith(LowerText(items[i].k.text), <<"i", "d">>)
                        /\ items[i].v.is_str
                        /\ FullMatch(Strip(items[i].v.text))}
         IN  IF hits = {} THEN ExtractError
             ELSE Extracted(items[CHOOSE i \in hits : \A j \in hits : i <= j].v)

IdleExtract ==
    /\ ex_record = NotADict /\ ex_pc = "idle" /\ ex_out = ExtractError

InitExtract ==
    /\ ex_record \in Dicts \cup {NotADict}
    /\ ex_pc = "call" /\ ex_out = ExtractError

extract_id ==
    /\ ex_pc = "call"
    /\ ex_out' = ExtractId(ex_record)
    /\ ex_pc' = ex_out'.kind
    /\ UNCHANGED ex_record

----------------------------------------------------------------------------
(* create on a single record: create, _create_single *)

\* The post of _create_single: the collection url, the Prefer header and
\* the record as JSON.
SingleRequest_ViaBatch(entity_set, data) ==
    [verb |-> "post", url |-> <<Api, "/", "$batch">>,
     prefer |-> "return=representation", json |-> data]

SingleRequest(entity_set, data) ==
    [verb |-> "post", url |-> CollectionUrl(entity_set),
     prefer |-> "return=representation", json |-> data]

\* What the server answers to the post: an error status, on which
\* raise_for_status raises; or success with the created record as a JSON
\* object; or success with an empty body, on which r.json() raises.
SingleAnswers ==
    { [raises |-> "HTTPError", body |-> NotADict],
      [raises |-> "JSONDecodeError", body |-> NotADict] }
      \cup { [raises |-> "", body |-> d] : d \in Dicts }

\* The records a caller passes.
SingleData ==
    { Dict(<<>>), Dict(<< [k |-> Str(<<"b", "a", "r">>), v |-> NoStr] >>) }

SingleNoOut == [kind |-> "none", value |-> NotADict]
SingleRaised(what) == [kind |-> "raised", value |-> what]
SingleReturned(v) == [kind |-> "returned", value |-> v]

IdleSingle ==
    /\ cs_entity_set = "" /\ cs_data = NotADict /\ cs_return_ids_only = FALSE
    /\ cs_requests = <<>> /\ cs_tokens = 0 /\ cs_result = NotADict
    /\ cs_pc = "idle" /\ cs_out = SingleNoOut

InitSingle ==
    /\ cs_entity_set \in EntitySets
    /\ cs_data \in SingleData
    /\ cs_return_ids_only \in BOOLEAN
    /\ cs_requests = <<>> /\ cs_tokens = 0 /\ cs_result = NotADict
    /\ cs_pc = "call" /\ cs_out = SingleNoOut

\* _create_single: the token for the headers, the post, raise_for_status
\* and r.json().
create_single ==
    /\ cs_pc = "call"
    /\ cs_tokens' = cs_tokens + 1
    /\ cs_requests' = Append(cs_requests, SingleRequest(cs_entity_set, cs_data))
    /\ \E answer \in SingleAnswers :
         IF answer.raises # ""
         THEN /\ cs_pc' = "raised" /\ cs_out' = SingleRaised(answer.raises)
              /\ UNCHANGED cs_result
         ELSE /\ cs_pc' = "created" /\ cs_result' = answer.body
              /\ UNCHANGED cs_out
    /\ UNCHANGED <<cs_entity_set, cs_data, cs_return_ids_only>>

\* create, lines 112-114: the result, or the identifier extracted from it.
create_single_return ==
    /\ cs_pc = "created"
    /\ IF cs_return_ids_only
       THEN LET id == ExtractId(cs_result)
            IN  IF id.kind = "raised"
                THEN cs_pc' = "raised" /\ cs_out' = SingleRaised("RuntimeError")
                ELSE cs_pc' = "returned" /\ cs_out' = SingleReturned(id.value)
       ELSE cs_pc' = "returned" /\ cs_out' = SingleReturned(cs_result)
    /\ UNCHANGED <<cs_entity_set, cs_data, cs_return_ids_only, cs_requests,
                   cs_tokens, cs_result>>

----------------------------------------------------------------------------
(* create on a list with return_ids_only=True *)

\* What the decoder yields for a created record: the representation the
\* server echoed, with the primary key the server gave it.
EchoedRecord(i) ==
    Dict(<< [k |-> Str(<<"c", "a", "s", "e", "i", "d">>),
             v |-> Str(Guid(IF i % 2 = 1 THEN "3" ELSE "f"))] >>)

\* Other entries of a decoded result: null (the item failed or its body
\* did not parse), a representation without a key field, and one whose key
\* field holds 36 hex digits without a hyphen.
OtherEntries ==
    { NotADict,
      Dict(<< [k |-> Str(<<"b", "a", "r">>), v |-> NoStr] >>),
      Dict(<< [k |-> Str(<<"I", "D">>), v |-> Str(Rep("f", 36))] >>) }

\* The decoded results of a group of n records that starts with record
\* number first: every record echoed, or its first or last entry another.
GroupResults(first, n) ==
    LET echoed == [j \in 1..n |-> EchoedRecord(first + j - 1)]
    IN  {echoed} \cup {[echoed EXCEPT ![at] = e] : at \in {1, n}, e \in OtherEntries}

IdsNoOut == [kind |-> "none", error |-> "", ids |-> <<>>]
IdsRaised(what) == [kind |-> "raised", error |-> what, ids |-> <<>>]
IdsReturned(ids) == [kind |-> "returned", error |-> "", ids |-> ids]

\* [self._extract_id(record) for record in results]: the list of the
\* identifiers, or the first error raised while it is built.
ExtractIds(res) ==
    IF \E i \in 1..Len(res) : ExtractId(res[i]).kind = "raised"
    THEN IdsRaised(ExtractError.value.text[1])
    ELSE IdsReturned([i \in 1..Len(res) |-> ExtractId(res[i]).value])

IdleIds ==
    /\ li_len = 0 /\ li_i = 0 /\ li_sent = 0 /\ li_results = <<>>
    /\ li_pc = "idle" /\ li_out = IdsNoOut

InitIds ==
    /\ li_len \in 0..MaxRecords
    /\ li_i = 0 /\ li_sent = 0 /\ li_results = <<>>
    /\ li_pc = "call" /\ li_out = IdsNoOut

\* create, lines 117-119, and _create_batch up to its loop.
create_ids_call ==
    /\ li_pc = "call"
    /\ IF li_len = 0
       THEN li_pc' = "returned" /\ li_out' = IdsReturned(EmptyList)
       ELSE li_pc' = "loop" /\ li_out' = li_out
    /\ UNCHANGED <<li_len, li_i, li_sent, li_results>>

\* One iteration of the loop of _create_batch: the group is sent, and its
\* request fails or its decoded results are appended.
create_ids_batch_iteration ==
    /\ li_pc = "loop"
    /\ li_i < li_len
    /\ li_sent' = li_sent + 1
    /\ LET n == IF li_i + BatchSize < li_len THEN BatchSize ELSE li_len - li_i
       IN  \/ /\ li_pc' = "raised" /\ li_out' = IdsRaised("HTTPError")
              /\ UNCHANGED <<li_i, li_results>>
           \/ \E decoded \in GroupResults(li_i + 1, n) :
                 /\ li_results' = Extend(li_results, decoded)
                 /\ li_i' = li_i + BatchSize
                 /\ li_pc' = (IF li_i + BatchSize < li_len THEN "loop"
                              ELSE "extract")
                 /\ UNCHANGED li_out
    /\ UNCHANGED li_len

\* create, lines 120-121: the identifiers of the results.
create_ids_extract ==
    /\ li_pc = "extract"
    /\ li_out' = ExtractIds(li_results)
    /\ li_pc' = li_out'.kind
    /\ UNCHANGED <<li_len, li_i, li_sent, li_results>>

----------------------------------------------------------------------------
(* delete_table *)

\* The names delete_table is called with, one of them a full schema name
\* under the default prefix.
DeleteTableNames == TableNames \cup { <<"new", "SampleItem">> }

\* What the lookup of delete_table may answer: as for create_table, the
\* metadata identifier being one of two identifiers, empty, or null.
DeleteEntities ==
    [found : {TRUE}, MetadataId : {"m1", "m2", "", Null},
     LogicalName : {"new_sampleitem", Null},
     EntitySetName : {"new_sampleitems", Null}]

DeleteLookupAnswers(stored) ==
    {NoEnt, HTTPErrorResponse} \cup (IF stored THEN DeleteEntities ELSE {})

\* GET {api}/EntityDefinitions with $filter SchemaName eq '{schema_name}'
LookupRequest(schema_name) ==
    [verb |-> "get", url |-> <<"EntityDefinitions">>, filter |-> schema_name]

\* DELETE {api}/EntityDefinitions({metadata_id})
DeleteRequest(mid) ==
    [verb |-> "delete", url |-> <<"EntityDefinitions", "(", mid, ")">>,
     filter |-> <<>>]

\* if not ent or not ent.get("MetadataId"): raise RuntimeError(... not found.)
TableNotFound_OnlyWhenNone(e) == ~e.found

TableNotFound(e) == ~e.found \/ e.MetadataId \in {Null, ""}

IdleDelete ==
    /\ dt_tablename = <<>> /\ dt_server_has = FALSE /\ dt_requests = <<>>
    /\ dt_ent = NoEnt /\ dt_pc = "idle" /\ dt_out = "none"

InitDelete ==
    /\ dt_tablename \in DeleteTableNames
    /\ dt_server_has \in BOOLEAN
    /\ dt_requests = <<>> /\ dt_ent = NoEnt /\ dt_pc = "call" /\ dt_out = "none"

\* delete_table, lines 480-484: the lookup by schema name and the check of
\* its answer.
delete_table_lookup ==
    /\ dt_pc = "call"
    /\ dt_requests' = Append(dt_requests, LookupRequest(EntitySchema(dt_tablename)))
    /\ \E answer \in DeleteLookupAnswers(dt_server_has) :
         /\ dt_ent' = answer
         /\ IF answer = HTTPErrorResponse
            THEN dt_pc' = "raised" /\ dt_out' = "HTTPError"
            ELSE IF TableNotFound(answer)
            THEN dt_pc' = "raised" /\ dt_out' = "RuntimeError: not found"
            ELSE dt_pc' = "delete" /\ dt_out' = dt_out
    /\ UNCHANGED <<dt_tablename, dt_server_has>>

\* delete_table, lines 485-489: the DELETE of the definition, which the
\* server removes unless it fails.
delete_table_request ==
    /\ dt_pc = "delete"
    /\ dt_requests' = Append(dt_requests, DeleteRequest(dt_ent.MetadataId))
    /\ \E ok \in BOOLEAN :
         IF ok
         THEN dt_server_has' = FALSE /\ dt_pc' = "returned" /\ dt_out' = "None"
         ELSE dt_pc' = "raised" /\ dt_out' = "HTTPError" /\ UNCHANGED dt_server_has
    /\ UNCHANGED <<dt_tablename, dt_ent>>

----------------------------------------------------------------------------
(* Specifications *)

NextParse ==
    /\ parse_batch_response
    /\ UNCHANGED <<retryVars, tableVars, createVars, deleteVars, extractVars,
                   singleVars, batchVars,
                   againVars,
                   idsVars>>

InitParseOnly ==
    /\ InitParse
    /\ IdleRetry /\ IdleTable /\ IdleCreate /\ IdleDelete /\ IdleExtract
    /\ IdleSingle /\ IdleBatch
    /\ IdleAgain
    /\ IdleIds

SpecParse == InitParseOnly /\ [][NextParse]_vars

InitPairingOnly ==
    /\ InitPairing
    /\ IdleRetry /\ IdleTable /\ IdleCreate /\ IdleDelete /\ IdleExtract
    /\ IdleSingle /\ IdleBatch
    /\ IdleAgain
    /\ IdleIds

SpecPairing == InitPairingOnly /\ [][NextParse]_vars

NextRetry ==
    \/ /\ backoff_retry_call
       /\ UNCHANGED <<parseVars, tableVars, createVars, deleteVars,
                      extractVars, singleVars, batchVars,
                      againVars,
                      idsVars>>
    \/ /\ backoff_retry_iteration
       /\ UNCHANGED <<parseVars, tableVars, createVars, deleteVars,
                      extractVars, singleVars, batchVars,
                      againVars,
                      idsVars>>

InitRetryOnly ==
    /\ InitRetry
    /\ IdleParse /\ IdleTable /\ IdleCreate /\ IdleDelete /\ IdleExtract
    /\ IdleSingle /\ IdleBatch
    /\ IdleAgain
    /\ IdleIds

SpecRetry == InitRetryOnly /\ [][NextRetry]_vars

\* backoff_retry runs in one thread from its call to its return or raise;
\* op() and time.sleep() return, so a step that can be taken is taken.
SpecRetryFair == InitRetryOnly /\ [][NextRetry]_vars /\ WF_vars(NextRetry)

NextTable ==
    \/ /\ create_table_lookup
       /\ UNCHANGED <<parseVars, retryVars, createVars, deleteVars,
                      extractVars, singleVars, batchVars,
                      againVars,
                      idsVars>>
    \/ /\ create_entity_post
       /\ UNCHANGED <<parseVars, retryVars, createVars, deleteVars,
                      extractVars, singleVars, batchVars,
                      againVars,
                      idsVars>>
    \/ /\ create_entity_wait
       /\ UNCHANGED <<parseVars, retryVars, createVars, deleteVars,
                      extractVars, singleVars, batchVars,
                      againVars,
                      idsVars>>
    \/ /\ create_table_wait
       /\ UNCHANGED <<parseVars, retryVars, createVars, deleteVars,
                      extractVars, singleVars, batchVars,
                      againVars,
                      idsVars>>

InitTableOnly ==
    /\ InitTable
    /\ IdleParse /\ IdleRetry /\ IdleCreate /\ IdleDelete /\ IdleExtract
    /\ IdleSingle /\ IdleBatch
    /\ IdleAgain
    /\ IdleIds

SpecTable == InitTableOnly /\ [][NextTable]_vars

NextTableTwice ==
    \/ NextTable
    \/ /\ create_table_again
       /\ UNCHANGED <<parseVars, retryVars, createVars, deleteVars,
                      extractVars, singleVars, batchVars,
                      idsVars>>

InitTableTwiceOnly ==
    /\ InitTable /\ InitAgain
    /\ IdleParse /\ IdleRetry /\ IdleCreate /\ IdleDelete /\ IdleExtract
    /\ IdleSingle /\ IdleBatch
    /\ IdleIds

SpecTableTwice == InitTableTwiceOnly /\ [][NextTableTwice]_vars

NextCreate ==
    \/ /\ create_list_call
       /\ UNCHANGED <<parseVars, retryVars, tableVars, deleteVars,
                      extractVars, singleVars, batchVars,
                      againVars,
                      idsVars>>
    \/ /\ create_batch_iteration
       /\ UNCHANGED <<parseVars, retryVars, tableVars, deleteVars,
                      extractVars, singleVars, batchVars,
                      againVars,
                      idsVars>>

InitCreateOnly ==
    /\ InitCreate
    /\ IdleParse /\ IdleRetry /\ IdleTable /\ IdleDelete /\ IdleExtract
    /\ IdleSingle /\ IdleBatch
    /\ IdleAgain
    /\ IdleIds

SpecCreate == InitCreateOnly /\ [][NextCreate]_vars

NextIds ==
    \/ /\ create_ids_call
       /\ UNCHANGED <<parseVars, retryVars, tableVars, createVars, deleteVars,
                      extractVars, singleVars, batchVars, againVars>>
    \/ /\ create_ids_batch_iteration
       /\ UNCHANGED <<parseVars, retryVars, tableVars, createVars, deleteVars,
                      extractVars, singleVars, batchVars, againVars>>
    \/ /\ create_ids_extract
       /\ UNCHANGED <<parseVars, retryVars, tableVars, createVars, deleteVars,
                      extractVars, singleVars, batchVars, againVars>>

InitIdsOnly ==
    /\ InitIds
    /\ IdleParse /\ IdleRetry /\ IdleTable /\ IdleCreate /\ IdleDelete
    /\ IdleExtract /\ IdleSingle /\ IdleBatch /\ IdleAgain

SpecIds == InitIdsOnly /\ [][NextIds]_vars

NextDelete ==
    \/ /\ delete_table_lookup
       /\ UNCHANGED <<parseVars, retryVars, tableVars, createVars,
                      extractVars, singleVars, batchVars,
                      againVars,
                      idsVars>>
    \/ /\ delete_table_request
       /\ UNCHANGED <<parseVars, retryVars, tableVars, createVars,
                      extractVars, singleVars, batchVars,
                      againVars,
                      idsVars>>

InitDeleteOnly ==
    /\ InitDelete
    /\ IdleParse /\ IdleRetry /\ IdleTable /\ IdleCreate /\ IdleExtract
    /\ IdleSingle /\ IdleBatch
    /\ IdleAgain
    /\ IdleIds

SpecDelete == InitDeleteOnly /\ [][NextDelete]_vars

NextExtract ==
    /\ extract_id
    /\ UNCHANGED <<parseVars, retryVars, tableVars, createVars, deleteVars,
                   singleVars, batchVars,
                   againVars,
                   idsVars>>

InitExtractOnly ==
    /\ InitExtract
    /\ IdleParse /\ IdleRetry /\ IdleTable /\ IdleCreate /\ IdleDelete
    /\ IdleSingle /\ IdleBatch
    /\ IdleAgain
    /\ IdleIds

SpecExtract == InitExtractOnly /\ [][NextExtract]_vars

NextSingle ==
    \/ /\ create_single
       /\ UNCHANGED <<parseVars, retryVars, tableVars, createVars, deleteVars,
                      extractVars, batchVars,
                      againVars,
                      idsVars>>
    \/ /\ create_single_return
       /\ UNCHANGED <<parseVars, retryVars, tableVars, createVars, deleteVars,
                      extractVars, batchVars,
                      againVars,
                      idsVars>>

InitSingleOnly ==
    /\ InitSingle
    /\ IdleParse /\ IdleRetry /\ IdleTable /\ IdleCreate /\ IdleDelete
    /\ IdleExtract /\ IdleBatch
    /\ IdleAgain
    /\ IdleIds

SpecSingle == InitSingleOnly /\ [][NextSingle]_vars

NextBatch ==
    \/ /\ execute_batch_create_build
       /\ UNCHANGED <<parseVars, retryVars, tableVars, createVars, deleteVars,
                      extractVars, singleVars,
                      againVars,
                      idsVars>>
    \/ /\ execute_batch_create_parse
       /\ UNCHANGED <<parseVars, retryVars, tableVars, createVars, deleteVars,
                      extractVars, singleVars,
                      againVars,
                      idsVars>>

InitBatchOnly ==
    /\ InitBatch
    /\ IdleParse /\ IdleRetry /\ IdleTable /\ IdleCreate /\ IdleDelete
    /\ IdleExtract /\ IdleSingle
    /\ IdleAgain
    /\ IdleIds

SpecBatch == InitBatchOnly /\ [][NextBatch]_vars

----------------------------------------------------------------------------
(* Properties of _parse_batch_response *)

\* The record a JSON object stands for, read off the body the server wrote.
RecordOf(body) == SelectSeq(body, LAMBDA c : c \in {"{", "}", "k"})

\* Part p reports a creation and carries a JSON object as its body: a blank
\* line, the object, then the next boundary or the end of the response.
CreatedWithObject(p) ==
    /\ Len(p.status_line) > 0 /\ p.status_line[1] = "201"
    /\ p.blank # <<"absent">>
    /\ p.body \in JsonObjects \cup {<<"{", "k", "}">>, <<"{", "}">>}
    /\ p.trailer \in {Boundary, LastBoundary, <<>>}

NotCreated(p) == Len(p.status_line) = 0 \/ p.status_line[1] # "201"

\* Part p reports a creation but has no body, a body that does not start
\* with an object, or a body that is no JSON.
CreatedUnparseable(p) ==
    /\ ~NotCreated(p)
    /\ \/ p.blank = <<"absent">>
       \/ p.body \in BrokenBodies

\* The positions that hold a part of the response.
Decoded == 1..(IF Len(wire_parts) < expected_count
               THEN Len(wire_parts) ELSE expected_count)

\* C1: for every response text and expected count N >= 0 the decoder returns
\* exactly N entries: positions past the parts found hold null (padding at
\* the tail), and parts past position N are dropped, the first N kept.
C1_ExactlyExpectedCount ==
    /\ parse_pc # "raised"
    /\ parse_pc = "returned" =>
         /\ Len(results) = expected_count
         /\ \A i \in 1..expected_count :
               IF i > Len(wire_parts) THEN results[i] = None
               ELSE results[i] = ParsePart(Render(wire_parts[i]))

\* C1 witness: a decode that padded (one part found, more expected).
C1_WitnessPadded ==
    /\ parse_pc = "returned"
    /\ Len(wire_parts) = 1 /\ expected_count = 3
    /\ results[1] # None /\ results[3] = None

\* C7: a part whose status line does not start with 201 yields null at its
\* own position, and every part with a 201 status and a JSON object as body
\* yields its record at its own position, whatever the other parts are.
C7_FailedPartDoesNotStopDecoding ==
    parse_pc = "returned" =>
        \A i \in Decoded :
            /\ NotCreated(wire_parts[i]) => results[i] = None
            /\ CreatedWithObject(wire_parts[i]) =>
                  results[i] = RecordOf(wire_parts[i].body)

\* C7 witness: a failed part between two created ones, all three decoded.
C7_WitnessSiblingsParsed ==
    /\ parse_pc = "returned" /\ Len(wire_parts) = 3 /\ expected_count = 3
    /\ CreatedWithObject(wire_parts[1])
    /\ wire_parts[2].status_line = <<"500", SP, "x">>
    /\ CreatedWithObject(wire_parts[3])
    /\ results[1] # None /\ results[2] = None /\ results[3] # None

\* C8: the decoder never raises: a 201 part without a body, with a body
\* that does not start with an object or with a body that fails to parse
\* yields null at its position, and the part after it is still decoded.
C8_NoParseErrorEscapes ==
    /\ parse_pc # "raised"
    /\ parse_pc = "returned" =>
         \A i \in Decoded :
            CreatedUnparseable(wire_parts[i]) =>
               /\ results[i] = None
               /\ (i + 1 \in Decoded /\ CreatedWithObject(wire_parts[i + 1])) =>
                     results[i + 1] = RecordOf(wire_parts[i + 1].body)

\* C8 witness: a 201 part whose body is cut short, followed by a good one.
C8_WitnessBrokenThenGood ==
    /\ parse_pc = "returned" /\ Len(wire_parts) = 2 /\ expected_count = 2
    /\ ~NotCreated(wire_parts[1]) /\ wire_parts[1].body = <<"{", "k">>
    /\ CreatedWithObject(wire_parts[2])
    /\ results[1] = None /\ results[2] # None

\* C21: results are paired with request items by position alone: result i
\* is what the i-th part after the preamble holds (its record when its
\* status is 201, null otherwise), whatever Content-ID the part or any other
\* part carries, and the positions past the last part hold the null padding.
C21_PairedByPosition ==
    parse_pc = "returned" =>
        /\ \A i \in Decoded :
              results[i] = (IF wire_parts[i].status_line[1] = "201"
                            THEN wire_parts[i].body ELSE None)
        /\ \A i \in 1..Len(results) :
              i > Len(wire_parts) => results[i] = None

\* C21 witness: the first part carries Content-ID 2 and record r1, the second
\* Content-ID 1 and record r2, three results expected: r1, r2, null.
C21_WitnessContentIdsSwapped ==
    /\ parse_pc = "returned" /\ expected_count = 3
    /\ preamble = MimeHeaders(2)
    /\ Len(wire_parts) = 2
    /\ wire_parts[1].trailer = <<CRLF>> \o MimeHeaders(1)
    /\ results = << <<"{", RecordToken(1), "}">>,
                    <<"{", RecordToken(2), "}">>, None >>

----------------------------------------------------------------------------
(* Properties of backoff_retry *)

RetryDone == retry_pc \in {"returned", "raised"}

\* C3 as stated: with a delay sequence of length n and every attempt failing
\* with a retryable failure, the operation is invoked exactly n times and
\* the failure of the last attempt is raised.
C3_AsStated ==
    (RetryDone /\ only_retryable) =>
        /\ attempts = Len(delays)
        /\ retry_pc = "raised" /\ retry_out = op_last

\* C3 amended: the same for every delay sequence of length n >= 1.
C3_RetryableEveryTime ==
    (RetryDone /\ only_retryable /\ Len(delays) >= 1) =>
        /\ attempts = Len(delays)
        /\ retry_pc = "raised" /\ retry_out = op_last
        /\ op_last \in Failures

\* C3 witness: three delays, three retryable failures, the last one raised.
C3_WitnessThreeAttempts ==
    /\ retry_pc = "raised" /\ only_retryable
    /\ delays = <<0, 2, 5>> /\ attempts = 3 /\ retry_out = op_last

\* C4: after a failed attempt another attempt follows if and only if delays
\* remain and the predicate accepts the failure or its status code is in
\* the retryable set; otherwise that failure is raised at once, so a
\* non-retryable first failure means exactly one attempt.
C4_RetryIffClassifiedRetryable ==
    (attempts >= 1 /\ op_last \in Failures) =>
        /\ retry_pc \in {"loop", "raised"}
        /\ retry_pc = "loop" <=>
              (attempts < Len(delays)
                 /\ ClassifiedRetryable(op_last, retry_if, retry_http_statuses))
        /\ retry_pc = "loop" => retry_idx = attempts + 1
        /\ retry_pc = "raised" => retry_out = op_last

\* C4 witness: the first failure was retried, the second was not
\* retryable and ended the call although a delay remained.
C4_WitnessStopsOnNonRetryable ==
    /\ retry_pc = "raised" /\ attempts = 2 /\ Len(delays) = 3
    /\ ~ClassifiedRetryable(op_last, retry_if, retry_http_statuses)
    /\ retry_out = op_last

\* C5 as stated: for every delay sequence the call returns normally only if
\* an attempt succeeded (with that attempt's result) and otherwise raises
\* the failure of the last attempt made.
C5_AsStated ==
    /\ retry_pc = "returned" => (op_last.type = "return" /\ retry_out = op_last)
    /\ retry_pc = "raised" => (op_last \in Failures /\ retry_out = op_last)

\* C5 amended: the same for every delay sequence that is not empty.
C5_NoSwallowedFailure ==
    Len(delays) >= 1 =>
        /\ retry_pc = "returned" => (op_last.type = "return" /\ retry_out = op_last)
        /\ retry_pc = "raised" => (op_last \in Failures /\ retry_out = op_last)

\* C5 witness: a failure, a retry, then a success whose value is returned.
C5_WitnessReturnsAfterRetry ==
    /\ retry_pc = "returned" /\ attempts = 2 /\ last_exc \in Failures
    /\ retry_out = Returned(2)

\* The sleeps of the first n attempts when each non-zero delay is slept
\* before its attempt, from attempt number first on.
RECURSIVE SleepsFrom(_, _, _)
SleepsFrom(first, n, ds) ==
    IF n = 0 THEN <<>>
    ELSE SleepsFrom(first, n - 1, ds)
           \o (IF ds[n] # 0 /\ n >= first
               THEN <<[before |-> n, secs |-> ds[n]]>> ELSE <<>>)

\* C6 as stated: no sleep before the first attempt; before each later
\* attempt exactly its delay is slept, a zero delay not at all.
C6_AsStated == sleeps = SleepsFrom(2, attempts, delays)

\* C6 amended: before every attempt, the first included, exactly its
\* delay is slept, a zero delay not at all.
C6_SleepsConfiguredDelay == sleeps = SleepsFrom(1, attempts, delays)

\* C6 witness: delays (2, 0, 5), three attempts: a sleep of 2 before the
\* first, none before the second, 5 before the third.
C6_WitnessSleeps ==
    /\ delays = <<2, 0, 5>> /\ attempts = 3
    /\ sleeps = <<[before |-> 1, secs |-> 2], [before |-> 3, secs |-> 5]>>

\* C23: backoff_retry terminates, having invoked the operation at most
\* len(delays) times; an attempt that succeeds ends the call, and once the
\* call has returned there is no further attempt and no further sleep.
C23_TerminatesWithinDelays ==
    /\ [](attempts <= Len(delays))
    /\ [][(attempts' # attempts /\ op_last'.type = "return") =>
             retry_pc' = "returned"]_vars
    /\ [][retry_pc = "returned" =>
             (attempts' = attempts /\ sleeps' = sleeps)]_vars
    /\ <>RetryDone

\* C23 witness: delays (0, 2, 5), the first attempt succeeded: one attempt,
\* no sleep, two delays left unused.
C23_WitnessStopsAfterSuccess ==
    /\ retry_pc = "returned" /\ delays = <<0, 2, 5>>
    /\ attempts = 1 /\ op_last.type = "return" /\ sleeps = <<>>

----------------------------------------------------------------------------
(* Properties of create_table *)

\* C2: when create_table returns, the result holds a logical name and an
\* entity set name, neither null; a poll that used up its delays without
\* a ready answer ends in an error, not in a returned result.
C2_ReturnedTableIsReady ==
    ct_pc = "returned" =>
        /\ ct_out.entity_logical_name # Null
        /\ ct_out.entity_set_name # Null
        /\ ~(poll_idx = Len(PollDelays) /\ ~Ready(ent))

\* C10: when the existence lookup answers with an entity, create_table
\* raises the already-exists error, has built no attribute definition and
\* has sent nothing but that lookup.
C10_ExistingTableFailsFast ==
    first_lookup.found =>
        /\ ct_pc = "raised"
        /\ ct_out = Raised("RuntimeError: already exists")
        /\ requests = <<"GET EntityDefinitions">>
        /\ attributes = <<>>

\* C10 witness: the lookup found the table, not yet with an entity set
\* name, for a call with columns to create.
C10_WitnessExists ==
    /\ first_lookup.found /\ first_lookup.EntitySetName = Null
    /\ Len(schema) = 2 /\ ct_pc = "raised"

\* C11: a create_table call whose schema holds a column type the client
\* does not know (after lower-casing and stripping) raises the
\* unsupported-column-type error having sent no request to the server.
C11_UnknownTypeNoRoundTrip ==
    (ct_pc = "raised" /\ ct_out = Raised("ValueError: unsupported column type")) =>
        requests = <<>>

\* The state of the spec's machine that a position of create_table stands
\* for: before and during the existence lookup the table counts as Absent.
Phase(pc) ==
    CASE pc = "call" -> "Absent"
      [] pc = "create_entity" -> "Creating"
      [] pc \in {"wait_in_create_entity", "wait_in_create_table"} ->
            "PollingForReadiness"
      [] pc = "returned" -> "Ready"
      [] pc = "raised" -> "Failed"
      [] OTHER -> "None"

\* A step into Ready comes out of the second poll, which is entered only
\* from a poll inside _create_entity that answered with an entity set name.
AfterSuccessfulPoll ==
    /\ (ct_pc' = "returned" /\ ct_pc # "returned") =>
          ct_pc = "wait_in_create_table"
    /\ (ct_pc' = "wait_in_create_table" /\ ct_pc # "wait_in_create_table") =>
          /\ ct_pc = "wait_in_create_entity"
          /\ ent'.found /\ ent'.EntitySetName # Null

Terminal == ct_pc \in {"returned", "raised"} => ct_pc' = ct_pc

BothNames(e) == e.found /\ e.LogicalName # Null /\ e.EntitySetName # Null

Polling == ct_pc \in {"wait_in_create_entity", "wait_in_create_table"}

\* C22: every step of a readiness poll is one lookup, slept for with the
\* configured delay when it is not the first; the poll ends at the first
\* lookup answered with both a logical name and a collection name, and a
\* poll not ended by a transport failure ends only at such a lookup or with
\* the lookup of the last delay.
C22_PollStopsAtBothNames ==
    [][Polling =>
         /\ requests' = Append(requests, "GET EntityDefinitions")
         /\ poll_sleeps' = (IF poll_idx > 1
                            THEN Append(poll_sleeps, PollDelays[poll_idx])
                            ELSE poll_sleeps)
         /\ BothNames(ent') => ct_pc' # ct_pc
         /\ (ct_pc' # ct_pc /\ ct_out' # Raised("HTTPError")) =>
               (BothNames(ent') \/ poll_idx = Len(PollDelays))]_vars

\* C24: the entity definition is posted at most once in a call, as the
\* second request, after an existence lookup that found no entity and with
\* an attribute definition for the primary name and for every column of the
\* schema; a lookup follows the post only when the post was accepted.
C24_PostOnceAfterChecks ==
    LET posts == {i \in 1..Len(requests) : requests[i] = "POST EntityDefinitions"}
    IN  /\ posts \subseteq {2}
        /\ Len(requests) >= 2 =>
              /\ posts = {2}
              /\ requests[1] = "GET EntityDefinitions"
              /\ first_lookup = NoEnt
              /\ Len(attributes) = Len(schema) + 1
              /\ \A i \in 1..Len(attributes) : attributes[i] # NoPayload
              /\ ct_payload.Attributes = attributes
        /\ Len(requests) >= 3 =>
              /\ server_has /\ poll_idx >= 1
              /\ \A i \in 3..Len(requests) : requests[i] = "GET EntityDefinitions"

\* C24 witness: a call with two columns that posted the definition and
\* made two readiness lookups after it.
C24_WitnessPostThenPolls ==
    /\ Len(schema) = 2 /\ Len(requests) = 4
    /\ requests[2] = "POST EntityDefinitions"
    /\ requests[4] = "GET EntityDefinitions"

\* C26: a call that failed after the server accepted the definition sent
\* nothing but the lookup, the post and readiness lookups (no delete), a
\* failed readiness lookup being the last request of the call; the
\* definition is still stored, and a second call for the same name whose
\* lookup finds it raises the already-exists error with that lookup as
\* its only request.
C26_FailedCreateLeavesDefinition ==
    /\ (ct_pc = "raised" /\ poll_idx >= 1) =>
          /\ server_has
          /\ requests[2] = "POST EntityDefinitions"
          /\ \A i \in 1..Len(requests) :
                i # 2 => requests[i] = "GET EntityDefinitions"
          /\ ct_out \in {Raised("HTTPError"),
                         Raised("RuntimeError: EntitySetName not available")}
          /\ ct_out = Raised("HTTPError") <=> ent = HTTPErrorResponse
    /\ ct_calls = 2 =>
          /\ server_has
          /\ first_lookup.found =>
                /\ ct_pc = "raised"
                /\ ct_out = Raised("RuntimeError: already exists")
                /\ requests = <<"GET EntityDefinitions">>
          /\ ct_payload = NothingPosted \/ ct_pc = "raised"

\* C26 witness: the first call used up its readiness delays and raised;
\* the second call, with columns to create, found the table and raised.
C26_WitnessSecondCallRefused ==
    /\ ct_calls = 2
    /\ prior_out = Raised("RuntimeError: EntitySetName not available")
    /\ Len(prior_requests) = 2 + Len(PollDelays)
    /\ first_lookup.found /\ ct_pc = "raised" /\ Len(schema) = 2

\* C20: in every entity definition posted, the attribute list holds the
\* primary name attribute first, named <prefix>_Name with the prefix the
\* piece of the schema name before its first underscore, and it alone is
\* marked as primary name; after it come the caller's columns, one
\* attribute each, in the order of the schema.
C20_PrimaryNameFirst ==
    ct_payload.posted =>
        LET attrs == ct_payload.Attributes
            prefix == ct_payload.SchemaName[1]
        IN  /\ ct_payload.SchemaName =
                  (IF Len(tablename) > 1 THEN tablename
                   ELSE <<"new", ToPascal(tablename[1])>>)
            /\ Len(attrs) = Len(schema) + 1
            /\ attrs[1].SchemaName = <<prefix, "Name">>
            /\ attrs[1].odata_type = "String"
            /\ \A i \in 1..Len(attrs) : attrs[i].IsPrimaryName <=> i = 1
            /\ \A i \in 1..Len(schema) :
                  attrs[i + 1].SchemaName = <<prefix, ToPascal(schema[i].col)>>

\* C20 witness: a definition posted under the prefix contoso with a string
\* column and a second column after the primary name attribute.
C20_WitnessTwoColumns ==
    /\ ct_payload.posted /\ tablename = <<"contoso", "Widget">>
    /\ Len(schema) = 2 /\ schema[1].dtype = "string" /\ schema[2].dtype = "INT"
    /\ ct_payload.Attributes[1].SchemaName = <<"contoso", "Name">>
    /\ ct_payload.Attributes[3].odata_type = "Integer"

----------------------------------------------------------------------------
(* Properties of delete_table *)

\* C13: the first request of delete_table is the lookup by schema name and
\* no delete request comes before it; when the lookup answers with no
\* entity or with an entity without a metadata identifier, the call raises
\* the not-found error and has sent no delete request; otherwise it sends
\* exactly one delete request, addressed by the looked-up identifier.
C13_DeleteAfterLookup ==
    /\ Len(dt_requests) >= 1 =>
          dt_requests[1] = LookupRequest(EntitySchema(dt_tablename))
    /\ \A i \in 1..Len(dt_requests) :
          dt_requests[i].verb = "delete" => i = 2
    /\ dt_pc \in {"returned", "raised"} =>
          IF dt_ent = HTTPErrorResponse
          THEN dt_pc = "raised" /\ dt_out = "HTTPError" /\ Len(dt_requests) = 1
          ELSE IF ~dt_ent.found \/ dt_ent.MetadataId \in {Null, ""}
          THEN /\ dt_pc = "raised" /\ dt_out = "RuntimeError: not found"
               /\ Len(dt_requests) = 1
          ELSE /\ Len(dt_requests) = 2
               /\ dt_requests[2].verb = "delete"
               /\ dt_requests[2].url =
                     <<"EntityDefinitions", "(", dt_ent.MetadataId, ")">>
               /\ dt_ent.MetadataId \in {"m1", "m2"}

\* C13 witness: a lookup that found the table under the identifier m2,
\* followed by the delete request for m2, which succeeded.
C13_WitnessDeleted ==
    /\ dt_pc = "returned" /\ dt_ent.MetadataId = "m2"
    /\ dt_requests[2] = DeleteRequest("m2") /\ ~dt_server_has

----------------------------------------------------------------------------
(* Properties of create on a single record and of _extract_id *)

\* C15: a create on a single record sends exactly one request, a post to
\* the collection url (not to $batch) carrying the record and asking for
\* the representation; the call then raises, or returns what the server
\* sent as the created record (with return_ids_only, a value of one of its
\* fields), which is a record and never null.
C15_SingleCreateOneRequest ==
    cs_pc # "call" =>
        /\ cs_requests =
              << [verb |-> "post", url |-> <<Api, "/", cs_entity_set>>,
                  prefer |-> "return=representation", json |-> cs_data] >>
        /\ cs_tokens = 1
        /\ cs_pc = "raised" => cs_out.kind = "raised"
        /\ cs_pc = "returned" =>
              /\ cs_result.is_dict
              /\ cs_out.kind = "returned"
              /\ IF cs_return_ids_only
                 THEN \E i \in 1..Len(cs_result.items) :
                         cs_out.value = cs_result.items[i].v
                 ELSE cs_out.value = cs_result

\* C15 witness: the call returned a representation of two fields.
C15_WitnessRepresentation ==
    /\ cs_pc = "returned" /\ ~cs_return_ids_only
    /\ Len(cs_result.items) = 2 /\ cs_out.value = cs_result
    /\ Len(cs_requests) = 1

\* The shape of an identifier: 36 characters, hyphens at the 9th, 14th,
\* 19th and 24th place, hex digits elsewhere.
IdentifierShape(text) ==
    /\ Len(text) = 36
    /\ \A i \in 1..Len(text) :
          IF i \in {9, 14, 19, 24} THEN text[i] = "-" ELSE text[i] \in HexDigits

\* C16: _extract_id returns the value of the first field, in record order,
\* whose name ends in "id" whatever the case of its letters and whose value
\* is a string of the identifier shape; for a record without such a field
\* and for an input that is no record it raises its extraction error.
C16_FirstIdShapedField ==
    ex_pc # "call" =>
        LET items == ex_record.items
            shaped == {i \in 1..Len(items) :
                         /\ items[i].k.is_str
                         /\ EndsWith(LowerText(items[i].k.text), <<"i", "d">>)
                         /\ items[i].v.is_str
                         /\ IdentifierShape(items[i].v.text)}
        IN  IF ex_record.is_dict /\ shaped # {}
            THEN ex_out = Extracted(items[CHOOSE i \in shaped :
                                             \A j \in shaped : i <= j].v)
            ELSE ex_out = ExtractError

----------------------------------------------------------------------------
(* Properties of _build_batch_body and of the round trip *)

\* The four boundary lines of the body built, and the places among lines
\* that hold a given line.
OpenBatch == <<"--", "batch_", bb_batch_id>>
CloseBatch == <<"--", "batch_", bb_batch_id, "--">>
OpenChangeset == <<"--", "changeset_", bb_changeset_id>>
CloseChangeset == <<"--", "changeset_", bb_changeset_id, "--">>
LinesEqualTo(lines, line) == {i \in 1..Len(lines) : lines[i] = line}

\* C17: for a non-empty record list the body is one batch holding one
\* changeset: the batch boundary opens on the first line only and closes on
\* the last line only, the second line declares the changeset boundary,
\* which opens once per record and closes exactly once, after every
\* opening of it and before the batch closes.
C17_OneBatchOneChangeset ==
    (bb_pc # "call" /\ Len(bb_records) >= 1) =>
        LET lines == Split(bb_body, CRLF)
            opens == LinesEqualTo(lines, OpenChangeset)
            closes == LinesEqualTo(lines, CloseChangeset)
        IN  /\ LinesEqualTo(lines, OpenBatch) = {1}
            /\ LinesEqualTo(lines, CloseBatch) = {Len(lines)}
            /\ lines[2] = <<"Content-Type: multipart/mixed; boundary=",
                            "changeset_", bb_changeset_id>>
            /\ Cardinality(opens) = Len(bb_records)
            /\ Cardinality(closes) = 1
            /\ \A c \in closes :
                  /\ c < Len(lines)
                  /\ \A o \in opens : 1 < o /\ o < c

\* C17 witness: a body built for three records.
C17_WitnessThreeRecords ==
    /\ bb_pc = "built" /\ Len(bb_records) = 3
    /\ LET lines == Split(bb_body, CRLF)
       IN  /\ Cardinality(LinesEqualTo(lines, OpenChangeset)) = 3
           /\ lines[Len(lines)] = CloseBatch

\* The lines of the k-th changeset part: from the k-th opening of the
\* changeset boundary up to the next opening or the closing of it.
PartLines(lines, opens, closes, k) ==
    LET marks == opens \cup closes
        start == CHOOSE o \in opens : Cardinality({p \in opens : p <= o}) = k
        stop == CHOOSE m \in marks :
                    m > start /\ \A n \in marks : n > start => m <= n
    IN  SubSeq(lines, start + 1, stop - 1)

\* C18: the body has one changeset part per record, and the part at place
\* k (counting from 1, so i = k - 1 counting from 0) carries Content-ID k,
\* a POST to the collection url, the JSON content type, the header Prefer:
\* return=representation and, after them, record k as JSON.
C18_OnePartPerRecordInOrder ==
    bb_pc # "call" =>
        LET lines == Split(bb_body, CRLF)
            opens == LinesEqualTo(lines, OpenChangeset)
            closes == LinesEqualTo(lines, CloseChangeset)
        IN  /\ Cardinality(opens) = Len(bb_records)
            /\ Cardinality(closes) = 1
            /\ \A k \in 1..Len(bb_records) :
                  LET part == PartLines(lines, opens, closes, k)
                      has(line) == \E i \in 1..Len(part) : part[i] = line
                      json == {i \in 1..Len(part) :
                                 Len(part[i]) > 0 /\ part[i][1] = "{"}
                  IN  /\ has(<<"Content-ID: ", ToString(k)>>)
                      /\ \A n \in 0..(MaxBatchRecords + 1) :
                            has(<<"Content-ID: ", ToString(n)>>) => n = k
                      /\ has(<<"POST", SP, Api, "/", bb_entity_set, SP, "HTTP/1.1">>)
                      /\ has(<<"Content-Type: application/json">>)
                      /\ has(<<"Prefer: return=representation">>)
                      /\ Cardinality(json) = 1
                      /\ \A i \in json : JsonLoads(part[i]) = bb_records[k]

\* C18 witness: a body whose second part holds a record other than the
\* first part's.
C18_WitnessSecondPart ==
    /\ bb_pc = "built" /\ Len(bb_records) = 2 /\ bb_records[1] # bb_records[2]
    /\ LET lines == Split(bb_body, CRLF)
           part == PartLines(lines, LinesEqualTo(lines, OpenChangeset),
                             LinesEqualTo(lines, CloseChangeset), 2)
       IN  \E i \in 1..Len(part) : part[i] = <<"Content-ID: ", "2">>

\* C19: decoding a response that reports every record of the batch as
\* created, in request order and with the record as body, gives back the
\* records, each at its place.
C19_RoundTrip ==
    bb_pc = "decoded" => bb_decoded = bb_records

----------------------------------------------------------------------------
(* Properties of create on a list *)

\* The number of groups of at most BatchSize that m records fall into.
GroupsOf(m) == (m + BatchSize - 1) \div BatchSize

\* The group and the place in it of input record i.
GroupOfRecord(i) == ((i - 1) \div BatchSize) + 1
PlaceInGroup(i) == ((i - 1) % BatchSize) + 1

\* C9: a list create of M >= 1 records that returns has sent ceil(M/25)
\* batch requests, the g-th holding the g-th run of at most 25 consecutive
\* records; the returned list is the group results one after another, so it
\* has M entries, entry i being the decoder's entry for record i's place in
\* record i's group (null, or what the server echoed for that record).
C9_ListCreateSplitsAndConcatenates ==
    (cb_pc = "returned" /\ Len(records) >= 1) =>
        /\ Len(sent_batches) = GroupsOf(Len(records))
        /\ Len(batch_results) = Len(sent_batches)
        /\ \A g \in 1..Len(sent_batches) :
              /\ Len(sent_batches[g]) \in 1..BatchSize
              /\ Len(batch_results[g]) = Len(sent_batches[g])
              /\ g < Len(sent_batches) => Len(sent_batches[g]) = BatchSize
        /\ Len(cb_out) = Len(records)
        /\ \A i \in 1..Len(records) :
              /\ sent_batches[GroupOfRecord(i)][PlaceInGroup(i)] = records[i]
              /\ cb_out[i] = batch_results[GroupOfRecord(i)][PlaceInGroup(i)]
              /\ cb_out[i] \in {None, records[i]}

\* C9 witness: 51 records in three groups; the second group was rejected
\* as a whole, the others were created.
C9_WitnessThreeGroups ==
    /\ cb_pc = "returned" /\ Len(records) = 51 /\ Len(sent_batches) = 3
    /\ cb_out[25] = Record(25) /\ cb_out[26] = None /\ cb_out[50] = None
    /\ cb_out[51] = Record(51)

\* C14: a create called with an empty list returns an empty list, having
\* sent no request and acquired no token.
C14_EmptyListNoNetwork ==
    (Len(records) = 0 /\ cb_pc # "call") =>
        /\ cb_pc = "returned" /\ cb_out = <<>>
        /\ cb_requests = <<>> /\ cb_tokens = 0 /\ sent_batches = <<>>

\* C14 witness: the call with an empty list has returned.
C14_WitnessEmptyReturned ==
    /\ Len(records) = 0 /\ cb_pc = "returned" /\ cb_out = <<>>

\* C25: when the request of group k fails (it was sent and has no decoded
\* result), the call has raised that failure, group k is the last group
\* sent although records remain after it, the k - 1 groups before it were
\* sent and decoded, and nothing of their results reaches the caller; no
\* step follows the raise.
C25_FailedGroupAbortsCall ==
    /\ [](Len(sent_batches) > Len(batch_results) =>
            LET k == Len(sent_batches)
            IN  /\ cb_pc = "raised" /\ cb_out = <<"HTTPError">>
                /\ Len(batch_results) = k - 1
                /\ sent_batches[k] = Slice(records, (k - 1) * BatchSize, BatchSize)
                /\ k <= GroupsOf(Len(records))
                /\ \A g \in 1..(k - 1) : Len(batch_results[g]) = BatchSize)
    /\ [][cb_pc = "raised" => UNCHANGED createVars]_vars

\* C25 witness: 51 records, the first group was created, the request of
\* the second failed, the third group was never sent.
C25_WitnessSecondGroupFails ==
    /\ cb_pc = "raised" /\ Len(records) = 51
    /\ Len(sent_batches) = 2 /\ Len(batch_results) = 1
    /\ batch_results[1][25] = Record(25)

\* A decoded entry that holds an id-shaped field: a record with a field
\* whose name ends in "id" and whose value is a string of the identifier
\* shape.
HasIdShapedField(rec) ==
    /\ rec.is_dict
    /\ \E i \in 1..Len(rec.items) :
          /\ rec.items[i].k.is_str
          /\ EndsWith(LowerText(rec.items[i].k.text), <<"i", "d">>)
          /\ rec.items[i].v.is_str
          /\ IdentifierShape(rec.items[i].v.text)

\* C27: a list create with return_ids_only whose groups were all sent and
\* decoded raises the extraction error when any decoded entry is null or
\* holds no id-shaped field; a list it returns has one identifier, of the
\* identifier shape, for each input record.
C27_AllIdsOrExtractionError ==
    (li_pc \in {"returned", "raised"} /\ li_len >= 1
       /\ li_out # IdsRaised("HTTPError")) =>
        /\ li_sent = GroupsOf(li_len)
        /\ Len(li_results) = li_len
        /\ (\E i \in 1..li_len : ~HasIdShapedField(li_results[i])) =>
              li_out = IdsRaised("RuntimeError: no record id")
        /\ li_out.kind = "returned" =>
              /\ Len(li_out.ids) = li_len
              /\ \A i \in 1..li_len :
                    li_out.ids[i].is_str /\ IdentifierShape(li_out.ids[i].text)

====
